---- MODULE Spec2Model ----
(***************************************************************************)
(* APIScout backend: the deduplicating LogStore (in-memory records keyed   *)
(* by fingerprint), its debounced persistence to logs.json, and the        *)
(* /api/logs route handlers that drive it.  APIScout extension: the        *)
(* capture pipeline of the service worker (handleWebRequest), its          *)
(* RequestProcessor, its FingerprintEngine and its ServerAPI client.       *)
(*                                                                         *)
(* A JavaScript object is a function from its own property names to their  *)
(* values, so that Object.assign, a missing property and JSON are what     *)
(* they are in the code.  Array positions are 0-based in the code and      *)
(* 1-based here: the element the code calls logs[i] is logs[i + 1].        *)
(* Time is the value Date.now() returns, in milliseconds.                  *)
(***************************************************************************)
EXTENDS Integers, Sequences, FiniteSets, TLC

VARIABLES
    logs,              \* LogStore.logs: the array of records
    fingerprintIndex,  \* LogStore.fingerprintIndex: Map fingerprint -> index
    saveScheduled,     \* LogStore.saveScheduled
    savePending,       \* LogStore.savePending
    timers,            \* armed setTimeout callbacks of scheduleAsyncSave: their due times, oldest first
    file,              \* the durable file logs.json
    now,               \* Date.now()
    lastOp,            \* history: the last LogStore call, its argument and what it found
    flush,             \* history: what the durability claims measure (see FlushIdle)
    config,            \* self.CONFIG, the configuration the service worker runs with
    isInitialized,     \* background.js: isInitialized
    assigned,          \* background.js: which of requestProcessor, fingerprintEngine,
                       \* storage and serverAPI initialize() has assigned
    stats,             \* background.js: stats
    sessionFingerprints, \* FingerprintEngine.sessionFingerprints: the Map's entries
                       \* <<fingerprint, data>> in iteration (insertion) order
    retryQueue,        \* ServerAPI.retryQueue
    requestBuffer,     \* FingerprintEngine.requestBuffer: the Map's entries
                       \* <<requestId, request>> in iteration (insertion) order
    isOnline,          \* ServerAPI.isOnline
    uploading,         \* the log entries of the uploadLog calls that await fetch
    batches,           \* the processRetryQueue calls that await batchUpload: their
                       \* logsToRetry and how the batch upload ended
    retries,           \* history: the number of processRetryQueue calls
    sent,              \* history: the log entries uploadLog was called with
    enqueued,          \* history: the log entries uploadLog pushed to the queue
    accepted,          \* history: the log entries of the batches the server accepted
    starting,          \* the initialize() calls that await checkHealth: the number
                       \* of the engine each created and the request that waits
    engines,           \* history of SpecStarting: the number of FingerprintEngine
                       \* instances created
    cleanupTimers,     \* SpecStarting: the number of intervals startCleanup has started
    discarded,         \* history of SpecStarting: a new engine replaced one whose
                       \* cache had entries
    handled,           \* history: the last handleWebRequest call and how far it got
    call               \* history: the last direct call of a method and what it returned

storeVars ==
    <<logs, fingerprintIndex, saveScheduled, savePending, timers, file, lastOp, flush>>

\* the request buffer, what ServerAPI and initialize() await, and their
\* histories: SpecBuffer, SpecRetry and SpecStarting follow them in steps
\* smaller than a whole handleWebRequest call
serviceVars ==
    <<requestBuffer, isOnline, uploading, batches, retries, sent, enqueued,
      accepted, starting, engines, cleanupTimers, discarded>>

captureVars ==
    <<config, isInitialized, assigned, stats, sessionFingerprints, retryQueue,
      handled, call, serviceVars>>

vars == <<storeVars, now, captureVars>>

----------------------------------------------------------------------------
(* Bounds of the model *)

\* the clock stops after this many debounce windows
MaxWindows == 2
\* the clock advances in steps of SAVE_DEBOUNCE_MS \div TicksPerWindow
TicksPerWindow == 1
\* LogStore.add inserts no record beyond this many
MaxLogs == 2
\* scheduleAsyncSave arms no timer beyond this many
MaxTimers == 2
\* the server stores or merges at most this many POSTed observations
MaxRequests == 2
\* updateFingerprint counts no fingerprint beyond this many occurrences
MaxCount == 3
\* the service worker handles no request beyond this many
MaxHandled == 2
\* processRetryQueue is called no more than this many times
MaxRetries == 2
\* the clock of the request buffer stops after this many half TTLs
MaxBufferTicks == 4

----------------------------------------------------------------------------
(* Program constants *)

SAVE_DEBOUNCE_MS == 5000

----------------------------------------------------------------------------
(* JavaScript objects and arrays *)

EmptyObject == [k \in {} |-> 0]

EmptyMap == [k \in {} |-> 0]

Has(obj, key) == key \in DOMAIN obj

\* Object.assign(target, source): every own property of source is copied
\* onto target, the others are kept
ObjectAssign(target, source) == source @@ target

MapSet(map, key, value) == (key :> value) @@ map

Elems(array) == {array[i] : i \in 1..Len(array)}

HasDuplicates(array) ==
    \E i, j \in 1..Len(array) : i # j /\ array[i] = array[j]

\* Array.prototype.includes
Includes(array, x) == x \in Elems(array)

----------------------------------------------------------------------------
(* Strings.  A JavaScript string is the sequence of its characters, so that *)
(* concatenation, split, includes and toLowerCase are computed.             *)

UpperChars == <<"A","B","C","D","E","F","G","H","I","J","K","L","M",
                "N","O","P","Q","R","S","T","U","V","W","X","Y","Z">>

LowerChars == <<"a","b","c","d","e","f","g","h","i","j","k","l","m",
                "n","o","p","q","r","s","t","u","v","w","x","y","z">>

LowerChar(c) ==
    IF \E i \in 1..26 : UpperChars[i] = c
    THEN LowerChars[CHOOSE i \in 1..26 : UpperChars[i] = c]
    ELSE c

\* String.prototype.toLowerCase
ToLowerCase(s) == [i \in 1..Len(s) |-> LowerChar(s[i])]

\* String.prototype.includes
StrIncludes(s, sub) ==
    \E i \in 0..(Len(s) - Len(sub)) : SubSeq(s, i + 1, i + Len(sub)) = sub

\* s.split(sep).pop() for a one-character sep: what follows the last sep,
\* or all of s when it holds none
AfterLast(s, sep) ==
    IF \E i \in 1..Len(s) : s[i] = sep
    THEN LET last == CHOOSE i \in 1..Len(s) :
                         s[i] = sep /\ \A j \in (i + 1)..Len(s) : s[j] # sep
         IN  SubSeq(s, last + 1, Len(s))
    ELSE s

Str_GET == <<"G","E","T">>
Str_h == <<"h">>
Str_h80 == <<"h",":","8","0">>
Str_localhost == <<"l","o","c","a","l","h","o","s","t">>
Str_pathA == <<"/","a">>
Str_path80A == <<"8","0",":","/","a">>
Str_pathPng == <<"/","a",".","P","N","G">>
Str_pathStatic == <<"/","s","t","a","t","i","c","/","a">>
Str_empty == <<>>
Str_POST == <<"P","O","S","T">>
Str_pathTarGz == <<"/","b","/","a",".","t","a","r",".","g","z">>

----------------------------------------------------------------------------
(* ExtensionFilter *)

IGNORE_EXTENSIONS ==
    { <<"j","p","g">>, <<"j","p","e","g">>, <<"p","n","g">>, <<"g","i","f">>,
      <<"s","v","g">>, <<"w","e","b","p">>,
      <<"c","s","s">>,
      <<"w","o","f","f">>, <<"w","o","f","f","2">>, <<"t","t","f">>,
      <<"e","o","t">>, <<"o","t","f">>,
      <<"m","p","4">>, <<"m","p","3">>, <<"w","e","b","m">>, <<"o","g","g">>,
      <<"m","4","a">>, <<"a","a","c">>, <<"f","l","a","c">>,
      <<"i","c","o">>, <<"m","a","p">>,
      <<"z","i","p">>, <<"t","a","r">>, <<"g","z">>, <<"7","z">>, <<"r","a","r">>,
      <<"p","d","f">>, <<"d","o","c">>, <<"d","o","c","x">>, <<"x","l","s">>,
      <<"x","l","s","x">> }

\* each regular expression of NOISE_PATTERNS is a plain substring test;
\* /\/images?\// and /\/fonts?\// are two substrings each
NOISE_PATTERNS ==
    { <<"/","x","j","s","/">>, <<"/","_","/","j","s","/">>,
      <<"/","c","o","l","l","e","c","t">>, <<"/","l","o","g","?">>,
      <<"$","r","p","c","/","g","o","o","g","l","e",".","i","n","t","e","r","n","a","l">>,
      <<"/","g","e","n","_","2","0","4">>, <<"/","f","p","_","2","0","4">>,
      <<"/","c","o","m","p","l","e","t","e","/","s","e","a","r","c","h">>,
      <<"/","j","s","/">>, <<"/","c","s","s","/">>,
      <<"/","i","m","a","g","e","/">>, <<"/","i","m","a","g","e","s","/">>,
      <<"/","s","t","a","t","i","c","/">>, <<"/","a","s","s","e","t","s","/">>,
      <<"/","f","o","n","t","/">>, <<"/","f","o","n","t","s","/">> }

\* (a filter that compares the extension as it is spelled)
shouldIgnoreCaseSensitive(method, hostname, normalizedPath) ==
    LET ext == AfterLast(normalizedPath, ".")
    IN  \/ ext \in IGNORE_EXTENSIONS
        \/ \E pattern \in NOISE_PATTERNS : StrIncludes(normalizedPath, pattern)

shouldIgnore(method, hostname, normalizedPath) ==
    LET ext == ToLowerCase(AfterLast(normalizedPath, "."))
    IN  \/ ext \in IGNORE_EXTENSIONS
        \/ \E pattern \in NOISE_PATTERNS : StrIncludes(normalizedPath, pattern)

\* the printable ASCII characters in code order, the first of code 32; the
\* quotation mark, the backslash and the grave accent, in no string here,
\* are spelled out
Ascii ==
    <<" ","!","(quote)","#","$","%","&","'","(",")","*","+",",","-",".","/",
      "0","1","2","3","4","5","6","7","8","9",":",";","<","=",">","?",
      "@","A","B","C","D","E","F","G","H","I","J","K","L","M","N","O",
      "P","Q","R","S","T","U","V","W","X","Y","Z","[","(backslash)","]","^","_",
      "(grave)","a","b","c","d","e","f","g","h","i","j","k","l","m","n","o",
      "p","q","r","s","t","u","v","w","x","y","z","{","|","}","~">>

CharCode == [c \in Elems(Ascii) |-> 31 + CHOOSE i \in 1..Len(Ascii) : Ascii[i] = c]

\* the UTF-8 bytes of a string of ASCII characters: what hash.update(s) of
\* Node hashes, and what TextEncoder.encode(s) returns
Utf8(s) == [i \in 1..Len(s) |-> CharCode[s[i]]]

\* the SHA-256 digest of a byte sequence, as bytes.  The digest is a function
\* of the hashed bytes alone and is taken to be collision free: it is the
\* bytes themselves after a marker byte.
Sha256(bytes) == <<1>> \o bytes

HexDigits == <<"0","1","2","3","4","5","6","7","8","9","a","b","c","d","e","f">>

\* array.join('') of an array of strings
RECURSIVE Join(_)
Join(strings) ==
    IF strings = <<>> THEN <<>> ELSE Head(strings) \o Join(Tail(strings))

\* hash.digest('hex'): two lowercase hexadecimal digits for every byte
DigestHex(bytes) ==
    Join([i \in 1..Len(bytes) |->
            <<HexDigits[(bytes[i] \div 16) + 1], HexDigits[(bytes[i] % 16) + 1]>>])

\* crypto.createHash('sha256').update(s).digest('hex')
Sha256Hex(s) == DigestHex(Sha256(Utf8(s)))

generateFingerprint(method, hostname, normalizedPath) ==
    Sha256Hex(method \o <<":">> \o hostname \o <<":">> \o normalizedPath)

----------------------------------------------------------------------------
(* FingerprintEngine (the capturing extension) *)

\* Number.prototype.toString(16) of a byte: no leading zero
RECURSIVE ToString16(_)
ToString16(b) ==
    IF b < 16 THEN <<HexDigits[b + 1]>>
    ELSE ToString16(b \div 16) \o <<HexDigits[(b % 16) + 1]>>

\* String.prototype.padStart(2, '0')
PadStart2(s) == IF Len(s) < 2 THEN <<"0">> \o s ELSE s

\* lines 24-25: hashArray.map(b => b.toString(16).padStart(2, '0')).join('')
FE_Hex(bytes) == Join([i \in 1..Len(bytes) |-> PadStart2(ToString16(bytes[i]))])

\* (a capture side that hashes the hostname first)
FE_generateFingerprintHostFirst(method, hostname, normalizedPath) ==
    FE_Hex(Sha256(Utf8(hostname \o <<":">> \o method \o <<":">> \o normalizedPath)))

\* FingerprintEngine.generateFingerprint, the value its promise resolves to
FE_generateFingerprint(method, hostname, normalizedPath) ==
    LET combined == method \o <<":">> \o hostname \o <<":">> \o normalizedPath
        data == Utf8(combined)
        hashArray == Sha256(data)
    IN  FE_Hex(hashArray)

----------------------------------------------------------------------------
(* The durable file logs.json *)

FileAbsent == [kind |-> "absent"]

\* a file whose content JSON.parse rejects
FileCorrupt == [kind |-> "corrupt"]

\* JSON.stringify(value, null, 2): the text of a value made of arrays,
\* objects, strings and numbers; JSON.parse gives the value back
JsonStringify(value) == [kind |-> "json", value |-> value]

JsonParses(text) == text.kind = "json"

JsonParse(text) == text.value

\* fs.writeFileSync(logsFile, text): the new content when the write
\* succeeds; a failed write throws and leaves the file as it was
WriteFileSync(old, text, ok) == IF ok THEN text ELSE old

----------------------------------------------------------------------------
(* LogStore: pure parts of its methods *)

\* if (log.fingerprint): present and not the empty string
Truthy(log) == Has(log, "fingerprint") /\ log.fingerprint # <<>>

\* load(), lines 110-114: the index rebuilt from the loaded array; a later
\* record with the same fingerprint overwrites the entry of an earlier one
RebuildIndex(loaded) ==
    LET fps == {loaded[i].fingerprint : i \in {j \in 1..Len(loaded) : Truthy(loaded[j])}}
    IN  [fp \in fps |->
            (CHOOSE i \in 1..Len(loaded) :
                /\ Truthy(loaded[i]) /\ loaded[i].fingerprint = fp
                /\ \A j \in (i + 1)..Len(loaded) :
                      ~(Truthy(loaded[j]) /\ loaded[j].fingerprint = fp)) - 1]

\* saveSync(), lines 170-177: the file after it, and whether it throws (it
\* throws the error of a failed write again)
SaveSync(old, value, ok) ==
    [file |-> WriteFileSync(old, JsonStringify(value), ok), threw |-> ~ok]

\* constructor and load(): the store and the file after construction on
\* file old, the writes of saveSync succeeding or not.  found: what was on
\* disk; wrote, failed: a write succeeded, failed; threw: the constructor
\* throws.
\* (a load that never creates the file it misses)
ConstructNoCreate(old, ok) ==
    IF JsonParses(old)
    THEN [logs |-> JsonParse(old),
          fingerprintIndex |-> RebuildIndex(JsonParse(old)),
          file |-> old, found |-> old.kind,
          wrote |-> FALSE, failed |-> FALSE, threw |-> FALSE]
    ELSE [logs |-> <<>>, fingerprintIndex |-> EmptyMap,
          file |-> old, found |-> old.kind,
          wrote |-> ok, failed |-> ~ok, threw |-> FALSE]

\* (a load whose catch block rewrites the file outside a try of its own)
ConstructRethrows(old, ok) ==
    IF JsonParses(old)
    THEN [logs |-> JsonParse(old),
          fingerprintIndex |-> RebuildIndex(JsonParse(old)),
          file |-> old, found |-> old.kind,
          wrote |-> FALSE, failed |-> FALSE, threw |-> FALSE]
    ELSE [logs |-> <<>>, fingerprintIndex |-> EmptyMap,
          file |-> SaveSync(old, <<>>, ok).file, found |-> old.kind,
          wrote |-> ok, failed |-> ~ok, threw |-> SaveSync(old, <<>>, ok).threw]

Construct(old, ok) ==
    LET \* the try block, lines 104-123: a file that is there is parsed, a
        \* missing one is created by saveSync; either may throw
        tried == IF old = FileAbsent
                 THEN SaveSync(old, <<>>, ok)
                 ELSE [file |-> old, threw |-> ~JsonParses(old)]
        \* the catch block, lines 124-134: saveSync again, in a try of its
        \* own whose catch only logs
        again == SaveSync(tried.file, <<>>, ok)
    IN  IF JsonParses(old)
        THEN [logs |-> JsonParse(old),
              fingerprintIndex |-> RebuildIndex(JsonParse(old)),
              file |-> old, found |-> old.kind,
              wrote |-> FALSE, failed |-> FALSE, threw |-> FALSE]
        ELSE IF ~tried.threw
        THEN [logs |-> <<>>, fingerprintIndex |-> EmptyMap,
              file |-> tried.file, found |-> old.kind,
              wrote |-> TRUE, failed |-> FALSE, threw |-> FALSE]
        ELSE [logs |-> <<>>, fingerprintIndex |-> EmptyMap,
              file |-> again.file, found |-> old.kind,
              wrote |-> ~again.threw, failed |-> again.threw, threw |-> FALSE]

\* getByFingerprint: the index of the record, -1 for null
IndexOf(index, fingerprint) ==
    IF fingerprint \in DOMAIN index THEN index[fingerprint] ELSE -1

\* add, lines 192-193: the stored record after a candidate with a known
\* fingerprint
\* (a merge that appends the candidate's arrays to the stored ones)
MergeExistingConcat(existingLog, logEntry, t) ==
    [ObjectAssign(ObjectAssign(existingLog, logEntry), [lastPatched |-> t])
        EXCEPT !.statusCodes = existingLog.statusCodes \o logEntry.statusCodes,
               !.queryKeys = existingLog.queryKeys \o logEntry.queryKeys]

\* (a merge that copies every property but normalizedPath)
MergeExistingKeepsPath(existingLog, logEntry, t) ==
    [ObjectAssign(ObjectAssign(existingLog, logEntry), [lastPatched |-> t])
        EXCEPT !.normalizedPath = existingLog.normalizedPath]

MergeExisting(existingLog, logEntry, t) ==
    ObjectAssign(ObjectAssign(existingLog, logEntry), [lastPatched |-> t])

\* add, line 199: the record inserted for a candidate with a new fingerprint
InsertNew(logEntry, t) == ObjectAssign(logEntry, [receivedAt |-> t])

\* add, line 186: has the index this fingerprint?
\* (a lookup that never finds its key)
IsKnownNever(index, fingerprint) == FALSE

IsKnown(index, fingerprint) == fingerprint \in DOMAIN index

\* add(logEntry) at time t on the array ls and the index idx: what they
\* become and what add returns
\* (an add that reports every candidate as new)
AddResultReportsNew(ls, idx, logEntry, t) ==
    LET fingerprint == logEntry.fingerprint
    IN  IF IsKnown(idx, fingerprint)
        THEN LET index == idx[fingerprint]
                 existingLog == ls[index + 1]
             IN  [logs |-> [ls EXCEPT ![index + 1] =
                                MergeExisting(existingLog, logEntry, t)],
                  fingerprintIndex |-> idx,
                  isNew |-> TRUE, index |-> index]
        ELSE [logs |-> Append(ls, InsertNew(logEntry, t)),
              fingerprintIndex |-> MapSet(idx, fingerprint, Len(ls)),
              isNew |-> TRUE, index |-> Len(ls)]

AddResult(ls, idx, logEntry, t) ==
    LET fingerprint == logEntry.fingerprint
    IN  IF IsKnown(idx, fingerprint)
        THEN LET index == idx[fingerprint]
                 existingLog == ls[index + 1]
             IN  [logs |-> [ls EXCEPT ![index + 1] =
                                MergeExisting(existingLog, logEntry, t)],
                  fingerprintIndex |-> idx,
                  isNew |-> FALSE, index |-> index]
        ELSE [logs |-> Append(ls, InsertNew(logEntry, t)),
              fingerprintIndex |-> MapSet(idx, fingerprint, Len(ls)),
              isNew |-> TRUE, index |-> Len(ls)]

\* scheduleAsyncSave, lines 142-148 and 164: the coordinator after a flush
\* request at time t
\* (a debounce that starts its timer again at every request)
ScheduleRestartsTimer(scheduled, pending, armed, t) ==
    [saveScheduled |-> TRUE, savePending |-> pending,
     timers |-> <<t + SAVE_DEBOUNCE_MS>>]

Schedule(scheduled, pending, armed, t) ==
    IF scheduled
    THEN [saveScheduled |-> TRUE, savePending |-> TRUE, timers |-> armed]
    ELSE [saveScheduled |-> TRUE, savePending |-> pending,
          timers |-> Append(armed, t + SAVE_DEBOUNCE_MS)]

\* the setTimeout callback of scheduleAsyncSave, lines 150 and 160-163,
\* around its write: the coordinator after the callback ran at time t, the
\* fired timer removed
\* (a callback that never lowers saveScheduled)
CallbackKeepsScheduled(pending, rest, t) ==
    [saveScheduled |-> TRUE, savePending |-> pending, timers |-> rest]

\* (a callback that never arms another window)
CallbackNeverRearms(pending, rest, t) ==
    [saveScheduled |-> FALSE, savePending |-> FALSE, timers |-> rest]

Callback(pending, rest, t) ==
    IF pending
    THEN Schedule(FALSE, FALSE, rest, t)
    ELSE [saveScheduled |-> FALSE, savePending |-> FALSE, timers |-> rest]

----------------------------------------------------------------------------
(* Inputs *)

MaxTime == MaxWindows * SAVE_DEBOUNCE_MS

TickMs == SAVE_DEBOUNCE_MS \div TicksPerWindow

\* (method, hostname, normalizedPath); the last two are hashed as the same
\* string GET:h:80:/a
Triples ==
    { <<Str_GET, Str_h, Str_pathA>>,
      <<Str_GET, Str_h80, Str_pathA>>,
      <<Str_GET, Str_h, Str_path80A>> }

Fingerprints == {generateFingerprint(tr[1], tr[2], tr[3]) : tr \in Triples}

\* the (method, hostname, normalizedPath) of a record or a candidate
TripleOf(r) == <<r.method, r.hostname, r.normalizedPath>>

\* every triple made of a method, a hostname and a path of Triples
TripleSpace ==
    { <<a[1], b[2], c[3]>> : a \in Triples, b \in Triples, c \in Triples }

\* the two generateFingerprint, tabulated over TripleSpace
StoreFingerprint ==
    [tr \in TripleSpace |-> generateFingerprint(tr[1], tr[2], tr[3])]

CaptureFingerprint ==
    [tr \in TripleSpace |-> FE_generateFingerprint(tr[1], tr[2], tr[3])]

\* what an observation carries besides its triple: statusCodes, queryKeys,
\* the discoveryCount hint and the client timestamp (0: not given)
Payloads ==
    { <<<<200>>, <<>>, 0, 0>>,
      <<<<200>>, <<>>, 1, 1>>,
      <<<<404>>, <<"q">>, 2, 2>> }

\* an optional property: 0 stands for "not given"
Optional(key, value) ==
    IF value = 0 THEN EmptyObject ELSE [k \in {key} |-> value]

\* the record the caller of add builds (logRoutes.js, lines 103-112, and
\* callers that leave discoveryCount or timestamp out)
Candidate(tr, statusCodes, queryKeys, discoveryCount, timestamp) ==
    ObjectAssign(
        ObjectAssign(
            [fingerprint |-> generateFingerprint(tr[1], tr[2], tr[3]),
             hostname |-> tr[2], method |-> tr[1], normalizedPath |-> tr[3],
             queryKeys |-> queryKeys, statusCodes |-> statusCodes],
            Optional("discoveryCount", discoveryCount)),
        Optional("timestamp", timestamp))

Candidates ==
    { Candidate(tr, p[1], p[2], p[3], p[4]) : tr \in Triples, p \in Payloads }

\* the arguments of update
Updates ==
    { [discoveryCount |-> 1],
      [fingerprint |-> generateFingerprint(Str_GET, Str_h, Str_pathA)] }

----------------------------------------------------------------------------
(* History variables *)

\* lastOp.op: the last call; isNew, index: what add found; ok: its write of
\* logs.json succeeded; found: what a construction found on disk; threw: the
\* call threw; static: the path POSTed ends with a static-asset extension
NoOp ==
    [op |-> "none", isNew |-> FALSE, index |-> -1, ok |-> TRUE,
     found |-> "none", threw |-> FALSE, static |-> FALSE]

\* no flush is scheduled, pending or armed
FlushIdle == ~saveScheduled /\ ~savePending /\ timers = <<>>

\* flush.clean:      no write has failed, and since the coordinator was last
\*                   idle there were only add calls, each followed by its
\*                   scheduleAsyncSave, all before the first write
\* flush.owed:       add returned and its scheduleAsyncSave is still to come
\* flush.writes:     durable writes since that idle state (counted while clean)
\* flush.dirtySince: the time of the oldest flush request that no successful
\*                   write has followed, -1 when there is none
\* flush.failed:     a write of logs.json failed
\* flush.requests:   POST requests that changed the Store so far
\* flush.lostAge:    at the last kill, the age of the oldest flush request
\*                   that no successful write had followed, -1 when none
\* flush.forced:     saveNow wrote the file and no flush was requested since
\* flush.cleared:    0: a record was added since the last clear, or there was
\*                   no clear; 2: clear emptied a Store that held records;
\*                   1: clear was only called on an empty Store
FlushInit(failed) ==
    [clean |-> FALSE, owed |-> FALSE, writes |-> 0, dirtySince |-> -1,
     failed |-> failed, requests |-> 0, lostAge |-> -1,
     forced |-> FALSE, cleared |-> 0]

FlushAfterAdd(f, idle) ==
    IF idle
    THEN [f EXCEPT !.clean = ~f.failed, !.owed = TRUE, !.writes = 0,
                   !.cleared = 0]
    ELSE [f EXCEPT !.clean = @ /\ ~f.owed /\ f.writes = 0, !.owed = TRUE,
                   !.cleared = 0]

FlushAfterRequest(f, t) ==
    [f EXCEPT !.clean = @ /\ f.owed, !.owed = FALSE,
              !.dirtySince = IF @ = -1 THEN t ELSE @,
              !.forced = FALSE]

FlushAfterPost(f, t) == [FlushAfterRequest(f, t) EXCEPT !.requests = @ + 1]

FlushAfterOther(f) == [f EXCEPT !.clean = FALSE, !.owed = FALSE]

FlushAfterWrite(f, ok) ==
    [f EXCEPT !.failed = @ \/ ~ok,
              !.dirtySince = IF ok THEN -1 ELSE @]

FlushAfterClear(f, held) ==
    [FlushAfterOther(f) EXCEPT
        !.cleared = IF held > 0 THEN 2 ELSE IF @ = 0 THEN 1 ELSE @]

FlushAfterSaveNow(f, ok) ==
    [FlushAfterWrite(FlushAfterOther(f), ok) EXCEPT
        !.forced = IF ok THEN TRUE ELSE @]

----------------------------------------------------------------------------
(* The extension before its service worker is loaded *)

\* Config.js: the two settings of CONFIG that the FingerprintEngine reads
DEFAULT_FINGERPRINT_THRESHOLD == 1

DEFAULT_SESSION_FINGERPRINT_LIMIT == 1000

CONFIG ==
    [FINGERPRINT_THRESHOLD |-> DEFAULT_FINGERPRINT_THRESHOLD,
     SESSION_FINGERPRINT_LIMIT |-> DEFAULT_SESSION_FINGERPRINT_LIMIT]

\* background.js, lines 40-44
ZeroStats == [requestsProcessed |-> 0, logsUploaded |-> 0, errors |-> 0]

\* FingerprintEngine.js, line 10, and ServerAPI.js, lines 8-13: a new engine
\* buffers no request, a new client is online and awaits nothing
ServicesIdle ==
    /\ requestBuffer = <<>>
    /\ isOnline = TRUE
    /\ uploading = {}
    /\ batches = <<>>
    /\ retries = 0
    /\ sent = {}
    /\ enqueued = {}
    /\ accepted = {}
    /\ starting = {}
    /\ engines = 0
    /\ cleanupTimers = 0
    /\ discarded = FALSE

\* no handleWebRequest call yet
NoRequest == [stage |-> "none"]

\* no direct call yet
NoCall == [fn |-> "none"]

\* background.js, lines 36-44, before initialize() runs
ExtensionNotLoaded ==
    /\ config = CONFIG
    /\ isInitialized = FALSE
    /\ assigned = {}
    /\ stats = ZeroStats
    /\ sessionFingerprints = <<>>
    /\ retryQueue = <<>>
    /\ handled = NoRequest
    /\ call = NoCall
    /\ ServicesIdle

----------------------------------------------------------------------------
(* LogStore: its methods *)

\* new LogStore(file) in a fresh process: constructor and load()
Init ==
    \E old \in {FileAbsent, FileCorrupt} : \E ok \in BOOLEAN :
        LET c == Construct(old, ok)
        IN  /\ logs = c.logs
            /\ fingerprintIndex = c.fingerprintIndex
            /\ saveScheduled = FALSE
            /\ savePending = FALSE
            /\ timers = <<>>
            /\ file = c.file
            /\ now = 0
            /\ lastOp = [NoOp EXCEPT !.op = "construct", !.ok = ~c.failed,
                                      !.found = c.found, !.threw = c.threw]
            /\ flush = FlushInit(c.failed)
            /\ ExtensionNotLoaded

\* add(logEntry)
Add(logEntry) ==
    \E r \in {AddResult(logs, fingerprintIndex, logEntry, now)} :
        /\ Len(r.logs) <= MaxLogs
        /\ logs' = r.logs
        /\ fingerprintIndex' = r.fingerprintIndex
        /\ savePending' = TRUE
        /\ lastOp' = [NoOp EXCEPT !.op = "add", !.isNew = r.isNew, !.index = r.index]
        /\ flush' = FlushAfterAdd(flush, FlushIdle)
        /\ UNCHANGED captureVars
        /\ UNCHANGED <<saveScheduled, timers, file, now>>

\* getByFingerprint(fingerprint), for a fingerprint the index holds
GetByFingerprint(fingerprint) == logs[IndexOf(fingerprintIndex, fingerprint) + 1]

\* update(fingerprint, updates); a call for an unknown fingerprint returns
\* null and changes nothing
Update(fingerprint, updates) ==
    /\ fingerprint \in DOMAIN fingerprintIndex
    /\ LET index == fingerprintIndex[fingerprint]
       IN  /\ logs' = [logs EXCEPT ![index + 1] = ObjectAssign(@, updates)]
           /\ lastOp' = [NoOp EXCEPT !.op = "update", !.index = index]
    /\ savePending' = TRUE
    /\ flush' = FlushAfterOther(flush)
    /\ UNCHANGED captureVars
    /\ UNCHANGED <<fingerprintIndex, saveScheduled, timers, file, now>>

\* count()
Count == Len(logs)

\* clear()
\* (a clear that empties the index and leaves the records)
ClearIndexOnly ==
    /\ logs' = logs
    /\ fingerprintIndex' = EmptyMap
    /\ savePending' = TRUE
    /\ lastOp' = [NoOp EXCEPT !.op = "clear"]
    /\ flush' = FlushAfterClear(flush, Len(logs))
    /\ UNCHANGED captureVars
    /\ UNCHANGED <<saveScheduled, timers, file, now>>

Clear ==
    /\ logs' = <<>>
    /\ fingerprintIndex' = EmptyMap
    /\ savePending' = TRUE
    /\ lastOp' = [NoOp EXCEPT !.op = "clear"]
    /\ flush' = FlushAfterClear(flush, Len(logs))
    /\ UNCHANGED captureVars
    /\ UNCHANGED <<saveScheduled, timers, file, now>>

\* scheduleAsyncSave(), up to the return: the flush request
ScheduleAsyncSave ==
    \E c \in {Schedule(saveScheduled, savePending, timers, now)} :
        /\ Len(c.timers) <= MaxTimers
        /\ saveScheduled' = c.saveScheduled
        /\ savePending' = c.savePending
        /\ timers' = c.timers
        /\ lastOp' = [NoOp EXCEPT !.op = "scheduleAsyncSave"]
        /\ flush' = FlushAfterRequest(flush, now)
        /\ UNCHANGED captureVars
        /\ UNCHANGED <<logs, fingerprintIndex, file, now>>

\* the setTimeout callback of scheduleAsyncSave, run when its timer is due;
\* ok: whether its writeFileSync succeeds
TimerFires(ok) ==
    /\ timers # <<>>
    /\ Head(timers) <= now
    /\ \E c \in {Callback(savePending, Tail(timers), now)} :
           /\ saveScheduled' = c.saveScheduled
           /\ savePending' = c.savePending
           /\ timers' = c.timers
    /\ file' = WriteFileSync(file, JsonStringify(logs), ok)
    /\ lastOp' = [NoOp EXCEPT !.op = "timer", !.ok = ok]
    /\ flush' = [FlushAfterWrite(flush, ok) EXCEPT
                    !.clean = @ /\ ok /\ ~flush.owed,
                    !.writes = IF ok /\ flush.clean THEN @ + 1 ELSE @]
    /\ UNCHANGED captureVars
    /\ UNCHANGED <<logs, fingerprintIndex, now>>

\* saveNow(); ok: whether its writeFileSync succeeds
SaveNow(ok) ==
    /\ file' = WriteFileSync(file, JsonStringify(logs), ok)
    /\ saveScheduled' = (IF ok THEN FALSE ELSE saveScheduled)
    /\ savePending' = (IF ok THEN FALSE ELSE savePending)
    /\ lastOp' = [NoOp EXCEPT !.op = "saveNow", !.ok = ok]
    /\ flush' = FlushAfterSaveNow(flush, ok)
    /\ UNCHANGED captureVars
    /\ UNCHANGED <<logs, fingerprintIndex, timers, now>>

\* time passes, never beyond the moment an armed timer is due
Tick ==
    LET next == IF timers # <<>> /\ Head(timers) < now + TickMs
                THEN Head(timers) ELSE now + TickMs
    IN  /\ next > now
        /\ next <= MaxTime
        /\ now' = next
        /\ lastOp' = NoOp
        /\ UNCHANGED captureVars
        /\ UNCHANGED <<logs, fingerprintIndex, saveScheduled, savePending,
                       timers, file, flush>>

\* the process is killed and started again: its timers die with it and a
\* new LogStore is constructed on the same file
KillAndRestart(ok) ==
    \E c \in {Construct(file, ok)} :
        /\ logs' = c.logs
        /\ fingerprintIndex' = c.fingerprintIndex
        /\ saveScheduled' = FALSE
        /\ savePending' = FALSE
        /\ timers' = <<>>
        /\ file' = c.file
        /\ lastOp' = [NoOp EXCEPT !.op = "restart", !.ok = ~c.failed,
                                   !.found = c.found, !.threw = c.threw]
        /\ flush' = [FlushInit(flush.failed \/ c.failed) EXCEPT
                        !.requests = flush.requests,
                        !.lostAge = IF flush.dirtySince = -1 THEN -1
                                    ELSE now - flush.dirtySince]
        /\ UNCHANGED captureVars
        /\ UNCHANGED now

----------------------------------------------------------------------------
(* routes/logRoutes.js *)

\* body.key, 0 for undefined
Field(body, key) == IF Has(body, key) THEN body[key] ELSE 0

\* !value of a string property: undefined or the empty string
Missing(body, key) == ~Has(body, key) \/ body[key] = <<>>

\* value || fallback, of a number
OrElse(value, fallback) == IF value = 0 THEN fallback ELSE value

\* lines 91-97: every code the array does not include yet is pushed
RECURSIVE PushMissing(_, _)
PushMissing(array, codes) ==
    IF codes = <<>> THEN array
    ELSE PushMissing(IF Includes(array, Head(codes)) THEN array
                     ELSE Append(array, Head(codes)),
                     Tail(codes))

\* line 70: the hostnames the route drops as local
IsLocalHost(hostname) ==
    LET hostnameLower == ToLowerCase(hostname)
    IN  \/ StrIncludes(hostnameLower, Str_localhost)
        \/ StrIncludes(hostnameLower, <<"1","2","7",".","0",".","0",".","1">>)
        \/ StrIncludes(hostnameLower, <<"[",":",":","1","]">>)
        \/ hostnameLower = <<"0",".","0",".","0",".","0">>

\* lines 88-97: the stored record after a repeat observation
RouteMerged(existingLog, body, t) ==
    LET counted == [discoveryCount |->
                        OrElse(Field(existingLog, "discoveryCount"), 1)
                        + OrElse(Field(body, "discoveryCount"), 1),
                    timestamp |-> OrElse(Field(body, "timestamp"), t)]
        merged == ObjectAssign(existingLog, counted)
    IN  IF Has(body, "statusCodes")
        THEN [merged EXCEPT !.statusCodes = PushMissing(@, body.statusCodes)]
        ELSE merged

\* lines 103-112: the record of a first observation
RouteEntry(body, fingerprint, t) ==
    [fingerprint |-> fingerprint,
     hostname |-> body.hostname,
     method |-> body.method,
     normalizedPath |-> body.normalizedPath,
     queryKeys |-> IF Has(body, "queryKeys") THEN body.queryKeys ELSE <<>>,
     statusCodes |-> IF Has(body, "statusCodes") THEN body.statusCodes ELSE <<>>,
     discoveryCount |-> OrElse(Field(body, "discoveryCount"), 1),
     timestamp |-> OrElse(Field(body, "timestamp"), t)]

\* the request bodies of POST /api/logs: observations without and with
\* the optional properties, and those the route rejects or drops (a missing
\* method, a local host, a static asset, a noise path)
Bodies ==
    LET bare == { [hostname |-> h, method |-> Str_GET, normalizedPath |-> Str_pathA] :
                    h \in {Str_h, Str_h80} }
    IN  bare
        \cup
        { ObjectAssign(b, [statusCodes |-> <<404>>, queryKeys |-> <<"q">>,
                           discoveryCount |-> 2, timestamp |-> 2]) : b \in bare }
        \cup
        { [hostname |-> Str_h, method |-> Str_empty, normalizedPath |-> Str_pathA],
          [hostname |-> Str_localhost, method |-> Str_GET, normalizedPath |-> Str_pathA],
          [hostname |-> Str_h, method |-> Str_GET, normalizedPath |-> Str_pathPng],
          [hostname |-> Str_h80, method |-> Str_POST, normalizedPath |-> Str_pathTarGz],
          [hostname |-> Str_h, method |-> Str_GET, normalizedPath |-> Str_pathStatic] }

\* lines 64-77: what the route answers before it touches the Store
Verdict(body) ==
    IF Missing(body, "hostname") \/ Missing(body, "method")
           \/ Missing(body, "normalizedPath")
    THEN "400"
    ELSE IF \/ IsLocalHost(body.hostname)
            \/ shouldIgnore(body.method, body.hostname, body.normalizedPath)
    THEN "ignored"
    ELSE "accepted"

\* Verdict and line 80, tabulated over the request bodies
VerdictOf == [body \in Bodies |-> Verdict(body)]

\* s ends with suffix
EndsWith(s, suffix) ==
    /\ Len(s) >= Len(suffix)
    /\ SubSeq(s, Len(s) - Len(suffix) + 1, Len(s)) = suffix

\* the path ends with a dot and a static-asset extension, in any letter case
HasStaticExtension(path) ==
    \E e \in IGNORE_EXTENSIONS : EndsWith(ToLowerCase(path), <<".">> \o e)

\* HasStaticExtension, tabulated over the paths of the request bodies
StaticOf == [path \in {b.normalizedPath : b \in Bodies} |-> HasStaticExtension(path)]

FingerprintOf ==
    [body \in {b \in Bodies : VerdictOf[b] = "accepted"} |->
        generateFingerprint(body.method, body.hostname, body.normalizedPath)]

\* router.post('/'), the whole handler.  A request the route answers without
\* calling the LogStore leaves no call in lastOp; of these only the drop of
\* a static-asset path is recorded.
PostLog(body) ==
    IF VerdictOf[body] = "400"
    THEN /\ lastOp' = NoOp
         /\ UNCHANGED captureVars
         /\ UNCHANGED <<logs, fingerprintIndex, saveScheduled, savePending,
                        timers, file, now, flush>>
    ELSE IF VerdictOf[body] = "ignored"
    THEN /\ lastOp' = IF StaticOf[body.normalizedPath]
                      THEN [NoOp EXCEPT !.op = "post:ignored", !.static = TRUE]
                      ELSE NoOp
         /\ UNCHANGED captureVars
         /\ UNCHANGED <<logs, fingerprintIndex, saveScheduled, savePending,
                        timers, file, now, flush>>
    ELSE
        LET fingerprint == FingerprintOf[body]
            index == IndexOf(fingerprintIndex, fingerprint)
        IN  IF index # -1
            THEN \E c \in {Schedule(saveScheduled, savePending, timers, now)} :
                     /\ flush.requests < MaxRequests
                     /\ logs' = [logs EXCEPT ![index + 1] =
                                    RouteMerged(@, body, now)]
                     /\ saveScheduled' = c.saveScheduled
                     /\ savePending' = c.savePending
                     /\ timers' = c.timers
                     /\ lastOp' = [NoOp EXCEPT !.op = "post:merged",
                                                !.index = index]
                     /\ flush' = FlushAfterPost(FlushAfterOther(flush), now)
                     /\ UNCHANGED captureVars
                     /\ UNCHANGED <<fingerprintIndex, file, now>>
            ELSE \E r \in {AddResult(logs, fingerprintIndex,
                                       RouteEntry(body, fingerprint, now), now)} :
                 \E c \in {Schedule(saveScheduled, TRUE, timers, now)} :
                     /\ flush.requests < MaxRequests
                     /\ Len(r.logs) <= MaxLogs
                     /\ logs' = r.logs
                     /\ fingerprintIndex' = r.fingerprintIndex
                     /\ saveScheduled' = c.saveScheduled
                     /\ savePending' = c.savePending
                     /\ timers' = c.timers
                     /\ lastOp' = [NoOp EXCEPT !.op = "post:new",
                                                !.isNew = r.isNew,
                                                !.index = r.index]
                     /\ flush' = FlushAfterPost(
                                     FlushAfterAdd(flush, FlushIdle), now)
                     /\ UNCHANGED captureVars
                     /\ UNCHANGED <<file, now>>

\* router.delete('/'): clear() and saveNow()
DeleteLogs(ok) ==
    /\ logs' = <<>>
    /\ fingerprintIndex' = EmptyMap
    /\ file' = WriteFileSync(file, JsonStringify(<<>>), ok)
    /\ saveScheduled' = (IF ok THEN FALSE ELSE saveScheduled)
    /\ savePending' = (IF ok THEN FALSE ELSE TRUE)
    /\ lastOp' = [NoOp EXCEPT !.op = "delete", !.ok = ok]
    /\ flush' = FlushAfterSaveNow(FlushAfterClear(flush, Len(logs)), ok)
    /\ UNCHANGED captureVars
    /\ UNCHANGED <<timers, now>>

----------------------------------------------------------------------------
(* LogStore: load() of a file that is there *)

\* object without its property key
Omit(object, key) == [k \in DOMAIN object \ {key} |-> object[k]]

\* records of one endpoint as a file may hold them: as add stored it, with
\* other observations merged in, and without its fingerprint
LoadRecords ==
    LET tr == <<Str_GET, Str_h, Str_pathA>>
        stored == InsertNew(Candidate(tr, <<200>>, <<>>, 0, 0), 0)
    IN  { stored,
          InsertNew(Candidate(tr, <<404>>, <<"q">>, 2, 2), 0),
          Omit(stored, "fingerprint") }

\* logs.json holding an array of at most two of them
LoadFiles ==
    { JsonStringify(<<>>) }
    \cup { JsonStringify(<<r>>) : r \in LoadRecords }
    \cup { JsonStringify(<<r, s>>) : r \in LoadRecords, s \in LoadRecords }

\* new LogStore(file) on a file that parses
InitLoad ==
    \E old \in LoadFiles :
        LET c == Construct(old, TRUE)
        IN  /\ logs = c.logs
            /\ fingerprintIndex = c.fingerprintIndex
            /\ saveScheduled = FALSE
            /\ savePending = FALSE
            /\ timers = <<>>
            /\ file = c.file
            /\ now = 0
            /\ lastOp = [NoOp EXCEPT !.op = "construct", !.ok = ~c.failed,
                                      !.found = c.found, !.threw = c.threw]
            /\ flush = FlushInit(c.failed)
            /\ ExtensionNotLoaded

----------------------------------------------------------------------------
(* Config.js and RequestProcessor *)

\* CONFIG.IGNORE_EXTENSIONS
CONFIG_IGNORE_EXTENSIONS ==
    { <<"j","p","g">>, <<"j","p","e","g">>, <<"p","n","g">>, <<"g","i","f">>, <<"s","v","g">>, <<"w","e","b","p">>,
      <<"c","s","s">>,
      <<"w","o","f","f">>, <<"w","o","f","f","2">>, <<"t","t","f">>, <<"e","o","t">>,
      <<"m","p","4">>, <<"m","p","3">>, <<"w","e","b","m">>, <<"o","g","g">>,
      <<"i","c","o">>, <<"m","a","p">> }

\* CONFIG.IGNORE_RESOURCE_TYPES
IGNORE_RESOURCE_TYPES == { <<"i","m","a","g","e">>, <<"f","o","n","t">>, <<"s","t","y","l","e","s","h","e","e","t">>, <<"m","e","d","i","a">> }

\* CONFIG.ACTION_WORDS
ACTION_WORDS ==
    << <<"l","o","g","i","n">>, <<"a","u","t","h">>, <<"u","s","e","r">>, <<"c","h","e","c","k","o","u","t">>, <<"o","r","d","e","r">>,
       <<"s","i","g","n","u","p">>, <<"p","a","y","m","e","n","t">>, <<"a","p","i">>, <<"a","p","i">>, <<"p","r","o","f","i","l","e">>,
       <<"a","c","c","o","u","n","t">>, <<"t","r","a","n","s","a","c","t","i","o","n">>, <<"p","u","r","c","h","a","s","e">> >>

UpperChar(c) ==
    IF \E i \in 1..26 : LowerChars[i] = c
    THEN UpperChars[CHOOSE i \in 1..26 : LowerChars[i] = c]
    ELSE c

\* String.prototype.toUpperCase
ToUpperCase(s) == [i \in 1..Len(s) |-> UpperChar(s[i])]

\* String.prototype.startsWith
StartsWith(s, prefix) ==
    Len(s) >= Len(prefix) /\ SubSeq(s, 1, Len(prefix)) = prefix

Digits == <<"0","1","2","3","4","5","6","7","8","9">>

IsDigit(c) == \E d \in 1..10 : Digits[d] = c

\* String(n) of a non-negative integer
RECURSIVE ToDecimal(_)
ToDecimal(n) ==
    IF n < 10 THEN <<Digits[n + 1]>>
    ELSE ToDecimal(n \div 10) \o <<Digits[(n % 10) + 1]>>

\* the position of the first character of s that is in chars, Len(s) + 1
\* when there is none
FirstOf(s, chars) ==
    IF \E i \in 1..Len(s) : s[i] \in chars
    THEN CHOOSE i \in 1..Len(s) :
             s[i] \in chars /\ \A j \in 1..(i - 1) : s[j] \notin chars
    ELSE Len(s) + 1

\* host:port without its port
WithoutPort(authority) ==
    LET tail == AfterLast(authority, ":")
    IN  IF /\ \E i \in 1..Len(authority) : authority[i] = ":"
           /\ \A i \in 1..Len(tail) : IsDigit(tail[i])
        THEN SubSeq(authority, 1, Len(authority) - Len(tail) - 1)
        ELSE authority

\* new URL(url), of an http or https URL without credentials, escapes or dot
\* segments, and of a string with no scheme at all, for which it throws
\* (ok = FALSE).  hostname is lowercased and has no port; pathname ends
\* before the query and the fragment and is "/" when the URL has no path.
ParseURL(url) ==
    LET lower == ToLowerCase(url)
        skip == IF StartsWith(lower, <<"h","t","t","p",":","/","/">>) THEN 7
                ELSE IF StartsWith(lower, <<"h","t","t","p","s",":","/","/">>) THEN 8
                ELSE 0
        rest == SubSeq(url, skip + 1, Len(url))
        hostEnd == FirstOf(rest, {"/", "?", "#"})
        host == WithoutPort(SubSeq(rest, 1, hostEnd - 1))
        after == SubSeq(rest, hostEnd, Len(rest))
        pathEnd == FirstOf(after, {"?", "#"})
    IN  IF skip = 0 \/ host = <<>>
        THEN [ok |-> FALSE]
        ELSE [ok |-> TRUE,
              hostname |-> ToLowerCase(host),
              pathname |-> IF after # <<>> /\ after[1] = "/"
                           THEN SubSeq(after, 1, pathEnd - 1)
                           ELSE <<"/">>]

\* shouldIgnoreRequest(url, resourceType); resourceType <<>>: not given
shouldIgnoreRequest(url, resourceType) ==
    LET urlObj == ParseURL(url)
    IN  IF /\ urlObj.ok
           /\ \/ StrIncludes(urlObj.hostname, <<"l","o","c","a","l","h","o","s","t">>)
              \/ StrIncludes(urlObj.hostname, <<"1","2","7",".","0",".","0",".","1">>)
              \/ urlObj.hostname = <<"[",":",":","1","]">>
        THEN TRUE
        ELSE IF resourceType # <<>> /\ resourceType \in IGNORE_RESOURCE_TYPES
        THEN TRUE
        ELSE IF /\ urlObj.ok
                /\ AfterLast(ToLowerCase(urlObj.pathname), ".")
                       \in CONFIG_IGNORE_EXTENSIONS
        THEN TRUE
        ELSE FALSE

\* the number of sep in s
CountOf(s, sep) == Cardinality({i \in 1..Len(s) : s[i] = sep})

\* getRootDomain(hostname): the last two of its dot-separated parts
getRootDomain(hostname) ==
    IF CountOf(hostname, ".") + 1 <= 2 THEN hostname
    ELSE LET dots == {i \in 1..Len(hostname) : hostname[i] = "."}
             cut == CHOOSE i \in dots :
                        Cardinality({j \in dots : j > i}) = 1
         IN  SubSeq(hostname, cut + 1, Len(hostname))

isSameDomain(hostname1, hostname2) ==
    getRootDomain(hostname1) = getRootDomain(hostname2)

\* getNormalizedPath(url): '' when the URL does not parse
getNormalizedPath(url) ==
    LET urlObj == ParseURL(url)
    IN  IF urlObj.ok THEN ToLowerCase(urlObj.pathname) ELSE <<>>

\* hasActionWords(path)
hasActionWords(path) ==
    /\ path # <<>>
    /\ \E i \in 1..Len(ACTION_WORDS) :
           StrIncludes(ToLowerCase(path), ACTION_WORDS[i])

\* isStateChangingMethod(method); method <<>>: not given
isStateChangingMethod(method) ==
    /\ method # <<>>
    /\ Includes(<< <<"P","O","S","T">>, <<"P","U","T">>, <<"D","E","L","E","T","E">>, <<"P","A","T","C","H">> >>, ToUpperCase(method))

\* a regular expression /w1|w2|.../i of plain words
TestAnyWord(path, words) ==
    \E w \in words : StrIncludes(ToLowerCase(path), w)

\* /\/v\d+\//i
TestVersionSegment(path) ==
    LET s == ToLowerCase(path)
    IN  \E i \in 1..Len(s) : \E j \in (i + 3)..Len(s) :
            /\ s[i] = "/" /\ s[i + 1] = "v" /\ s[j] = "/"
            /\ \A k \in (i + 2)..(j - 1) : IsDigit(s[k])

\* a statusCode that is not given (undefined)
NoStatus == -1

\* (a test of the last digit of the status code)
StatusEndsWith(statusCode, digit) ==
    /\ statusCode # NoStatus
    /\ statusCode # 0
    /\ ToDecimal(statusCode)[Len(ToDecimal(statusCode))] = digit

\* statusCode && String(statusCode).startsWith(digit); 0: a failed request
StatusStartsWith(statusCode, digit) ==
    /\ statusCode # NoStatus
    /\ statusCode # 0
    /\ Head(ToDecimal(statusCode)) = digit

\* tags.push(tag) under a condition
PushIf(condition, tag) == IF condition THEN <<tag>> ELSE <<>>

\* classifyRequest, lines 271-312: the tags, in the order they are pushed
ClassifyTags(method, path, statusCode, isPrimaryContext) ==
    PushIf(StatusStartsWith(statusCode, "5"), "server-error")
    \o PushIf(StatusStartsWith(statusCode, "4"), "client-error")
    \o PushIf(TestAnyWord(path, { <<"l","o","g","i","n">>, <<"l","o","g","o","u","t">>, <<"s","i","g","n","i","n">>, <<"s","i","g","n","u","p">>,
                                  <<"a","u","t","h">>, <<"s","e","s","s","i","o","n">> }),
              "authentication")
    \o PushIf(\/ TestAnyWord(path, { <<"/","a","p","i","/">>, <<"/","g","r","a","p","h","q","l">> })
              \/ TestVersionSegment(path),
              "api-endpoint")
    \o PushIf(isStateChangingMethod(method), "state-change")
    \o PushIf(TestAnyWord(path, { <<"a","n","a","l","y","t","i","c","s">>, <<"t","r","a","c","k","i","n","g">>, <<"t","e","l","e","m","e","t","r","y">>,
                                  <<"b","e","a","c","o","n">>, <<"p","i","x","e","l">>, <<"m","e","t","r","i","c">> }),
              "infrastructure")
    \o PushIf(hasActionWords(path), "business-logic")
    \o <<IF isPrimaryContext THEN "primary-context" ELSE "cross-origin">>

\* classifyRequest, lines 315-320: the criticality score
ClassifyScore(method, path, tags, statusCode) ==
    (IF isStateChangingMethod(method) THEN 30 ELSE 0)
    + (IF hasActionWords(path) THEN 25 ELSE 0)
    + (IF Includes(tags, "authentication") THEN 20 ELSE 0)
    + (IF Includes(tags, "api-endpoint") THEN 15 ELSE 0)
    + (IF StatusStartsWith(statusCode, "5") THEN 10 ELSE 0)

\* (a classifier that takes a score of exactly 50 for not critical)
classifyRequestAbove50(method, normalizedPath, hostname, statusCode, isPrimaryContext) ==
    LET tags == ClassifyTags(method, normalizedPath, statusCode, isPrimaryContext)
        score == ClassifyScore(method, normalizedPath, tags, statusCode)
    IN  [tags |-> tags, score |-> score, critical |-> score > 50]

\* classifyRequest(method, normalizedPath, hostname, statusCode,
\* isPrimaryContext); normalizedPath <<>>: the empty string or not given
classifyRequest(method, normalizedPath, hostname, statusCode, isPrimaryContext) ==
    LET tags == ClassifyTags(method, normalizedPath, statusCode, isPrimaryContext)
        score == ClassifyScore(method, normalizedPath, tags, statusCode)
    IN  [tags |-> tags, score |-> score, critical |-> score >= 50]

\* the methods above called directly, one call in a run; call records the
\* arguments and the value returned
CallShouldIgnore(method, hostname, normalizedPath) ==
    /\ call = NoCall
    /\ call' = [fn |-> "shouldIgnore", method |-> method,
                hostname |-> hostname, normalizedPath |-> normalizedPath,
                result |-> shouldIgnore(method, hostname, normalizedPath)]
    /\ UNCHANGED <<storeVars, serviceVars, now, config, isInitialized, assigned, stats,
                   sessionFingerprints, retryQueue, handled>>

CallClassifyRequest(method, normalizedPath, hostname, statusCode, isPrimaryContext) ==
    /\ call = NoCall
    /\ call' = [fn |-> "classifyRequest", method |-> method,
                normalizedPath |-> normalizedPath, statusCode |-> statusCode,
                result |-> classifyRequest(method, normalizedPath, hostname,
                                           statusCode, isPrimaryContext)]
    /\ UNCHANGED <<storeVars, serviceVars, now, config, isInitialized, assigned, stats,
                   sessionFingerprints, retryQueue, handled>>

----------------------------------------------------------------------------
(* FingerprintEngine: the session cache *)

\* sessionFingerprints.has(fingerprint)
CacheHas(cache, fingerprint) ==
    \E i \in 1..Len(cache) : cache[i][1] = fingerprint

\* sessionFingerprints.get(fingerprint), of a fingerprint the Map has
CacheGet(cache, fingerprint) ==
    cache[CHOOSE i \in 1..Len(cache) : cache[i][1] = fingerprint][2]

\* (a threshold that the count has to exceed)
shouldSendUpdateAboveThreshold(cache, cfg, fingerprint) ==
    IF ~CacheHas(cache, fingerprint) THEN TRUE
    ELSE CacheGet(cache, fingerprint).count > cfg.FINGERPRINT_THRESHOLD

\* shouldSendUpdate(fingerprint)
shouldSendUpdate(cache, cfg, fingerprint) ==
    IF ~CacheHas(cache, fingerprint) THEN TRUE
    ELSE CacheGet(cache, fingerprint).count >= cfg.FINGERPRINT_THRESHOLD

\* Array.prototype.sort((a, b) => b[1].firstSeen - a[1].firstSeen), which is
\* stable: where entry i of entries goes
SortedPosition(entries, i) ==
    Cardinality({ j \in 1..Len(entries) :
                    \/ entries[j][2].firstSeen > entries[i][2].firstSeen
                    \/ /\ entries[j][2].firstSeen = entries[i][2].firstSeen
                       /\ j < i }) + 1

SortNewestFirst(entries) ==
    [p \in 1..Len(entries) |->
        entries[CHOOSE i \in 1..Len(entries) : SortedPosition(entries, i) = p]]

\* (a prune that keeps the oldest entries)
pruneOldFingerprintsKeepsOldest(cache, cfg) ==
    IF Len(cache) > cfg.SESSION_FINGERPRINT_LIMIT
    THEN SubSeq(cache, 1, cfg.SESSION_FINGERPRINT_LIMIT)
    ELSE cache

\* pruneOldFingerprints(): the Map is cleared and refilled with the entries
\* kept, in their sorted order
pruneOldFingerprints(cache, cfg) ==
    IF Len(cache) > cfg.SESSION_FINGERPRINT_LIMIT
    THEN SubSeq(SortNewestFirst(cache), 1, cfg.SESSION_FINGERPRINT_LIMIT)
    ELSE cache

\* updateFingerprint(fingerprint) at time t
updateFingerprint(cache, cfg, fingerprint, t) ==
    pruneOldFingerprints(
        IF ~CacheHas(cache, fingerprint)
        THEN Append(cache, <<fingerprint, [firstSeen |-> t, count |-> 1]>>)
        ELSE [i \in 1..Len(cache) |->
                 IF cache[i][1] = fingerprint
                 THEN <<fingerprint, [cache[i][2] EXCEPT !.count = @ + 1]>>
                 ELSE cache[i]],
        cfg)

\* the largest count of an entry
MaxCountOf(cache) ==
    IF cache = <<>> THEN 0
    ELSE CHOOSE n \in {cache[i][2].count : i \in 1..Len(cache)} :
             \A i \in 1..Len(cache) : cache[i][2].count <= n

\* updateFingerprint(fingerprint) called directly; call records whether the
\* Map exceeded the limit before the prune
UpdateFingerprint(fingerprint) ==
    \E c \in {updateFingerprint(sessionFingerprints, config, fingerprint, now)} :
        /\ MaxCountOf(c) <= MaxCount
        /\ sessionFingerprints' = c
        /\ call' = [fn |-> "updateFingerprint", fingerprint |-> fingerprint,
                    exceeded |-> /\ ~CacheHas(sessionFingerprints, fingerprint)
                                 /\ Len(sessionFingerprints) + 1
                                        > config.SESSION_FINGERPRINT_LIMIT]
        /\ UNCHANGED <<storeVars, serviceVars, now, config, isInitialized, assigned, stats,
                       retryQueue, handled>>

\* shouldSendUpdate(fingerprint) called directly
ShouldSendUpdate(fingerprint) ==
    /\ call' = [fn |-> "shouldSendUpdate", fingerprint |-> fingerprint,
                result |-> shouldSendUpdate(sessionFingerprints, config,
                                            fingerprint)]
    /\ UNCHANGED <<storeVars, serviceVars, now, config, isInitialized, assigned, stats,
                   sessionFingerprints, retryQueue, handled>>

\* new FingerprintEngine(config), for the configurations of the model
EngineConfigs ==
    { [FINGERPRINT_THRESHOLD |-> threshold, SESSION_FINGERPRINT_LIMIT |-> limit] :
        threshold \in {DEFAULT_FINGERPRINT_THRESHOLD, 2, 3}, limit \in {1, 2} }

\* the fingerprints the engine is called with
EngineFingerprints == {"f1", "f2", "f3"}

InitEngine ==
    /\ logs = <<>>
    /\ fingerprintIndex = EmptyMap
    /\ saveScheduled = FALSE
    /\ savePending = FALSE
    /\ timers = <<>>
    /\ file = FileAbsent
    /\ now = 0
    /\ lastOp = NoOp
    /\ flush = FlushInit(FALSE)
    /\ config \in EngineConfigs
    /\ isInitialized = FALSE
    /\ assigned = {"fingerprintEngine"}
    /\ stats = ZeroStats
    /\ sessionFingerprints = <<>>
    /\ retryQueue = <<>>
    /\ handled = NoRequest
    /\ call = NoCall
    /\ ServicesIdle

----------------------------------------------------------------------------
(* FingerprintEngine: the request buffer *)

REQUEST_BUFFER_TTL == 60000

\* the position of requestId among the Map's entries, 0 when it has none
BufferPosition(buffer, requestId) ==
    IF \E i \in 1..Len(buffer) : buffer[i][1] = requestId
    THEN CHOOSE i \in 1..Len(buffer) : buffer[i][1] = requestId
    ELSE 0

\* bufferRequest(requestId, details) at time t: Map.set of the details with
\* timestamp written over them
bufferRequest(buffer, requestId, details, t) ==
    LET request == [details EXCEPT !.timestamp = t]
        i == BufferPosition(buffer, requestId)
    IN  IF i = 0
        THEN Append(buffer, <<requestId, request>>)
        ELSE [buffer EXCEPT ![i] = <<requestId, request>>]

\* removeBufferedRequest(requestId)
removeBufferedRequest(buffer, requestId) ==
    SelectSeq(buffer, LAMBDA e : e[1] # requestId)

\* (a sweep that also purges the entry whose age is the TTL)
cleanupBufferAtTtl(buffer, t) ==
    SelectSeq(buffer, LAMBDA e : ~(t - e[2].timestamp >= REQUEST_BUFFER_TTL))

\* cleanupBuffer() at time t
cleanupBuffer(buffer, t) ==
    SelectSeq(buffer, LAMBDA e : ~(t - e[2].timestamp > REQUEST_BUFFER_TTL))

\* the requests the listeners buffer: their ids and details; a timestamp
\* among the details is the one of the page, not of the buffer
BufferRequestIds == {"r1", "r2"}

BufferDetails ==
    { [url |-> "http://h/a", timestamp |-> 0],
      [url |-> "http://h/b", timestamp |-> 1] }

BufferTickMs == REQUEST_BUFFER_TTL \div 2

BufferRequest(requestId, details) ==
    /\ requestBuffer' = bufferRequest(requestBuffer, requestId, details, now)
    /\ call' = [fn |-> "bufferRequest", requestId |-> requestId]
    /\ UNCHANGED <<storeVars, now, config, isInitialized, assigned, stats,
                   sessionFingerprints, retryQueue, handled, isOnline,
                   uploading, batches, retries, sent, enqueued, accepted,
                   starting, engines, cleanupTimers, discarded>>

RemoveBufferedRequest(requestId) ==
    /\ requestBuffer' = removeBufferedRequest(requestBuffer, requestId)
    /\ call' = [fn |-> "removeBufferedRequest", requestId |-> requestId]
    /\ UNCHANGED <<storeVars, now, config, isInitialized, assigned, stats,
                   sessionFingerprints, retryQueue, handled, isOnline,
                   uploading, batches, retries, sent, enqueued, accepted,
                   starting, engines, cleanupTimers, discarded>>

\* the callback of startCleanup's interval, or a direct call
CleanupBuffer ==
    /\ requestBuffer' = cleanupBuffer(requestBuffer, now)
    /\ call' = [fn |-> "cleanupBuffer",
                purged |-> Len(requestBuffer) - Len(requestBuffer')]
    /\ UNCHANGED <<storeVars, now, config, isInitialized, assigned, stats,
                   sessionFingerprints, retryQueue, handled, isOnline,
                   uploading, batches, retries, sent, enqueued, accepted,
                   starting, engines, cleanupTimers, discarded>>

\* Date.now() moves on by half a TTL
BufferTick ==
    /\ now + BufferTickMs <= MaxBufferTicks * BufferTickMs
    /\ now' = now + BufferTickMs
    /\ UNCHANGED <<storeVars, captureVars>>

\* no LogStore in the process of the extension
NoStore ==
    /\ logs = <<>>
    /\ fingerprintIndex = EmptyMap
    /\ saveScheduled = FALSE
    /\ savePending = FALSE
    /\ timers = <<>>
    /\ file = FileAbsent
    /\ now = 0
    /\ lastOp = NoOp
    /\ flush = FlushInit(FALSE)

\* new FingerprintEngine(CONFIG)
InitBuffer ==
    /\ NoStore
    /\ config = CONFIG
    /\ isInitialized = FALSE
    /\ assigned = {"fingerprintEngine"}
    /\ stats = ZeroStats
    /\ sessionFingerprints = <<>>
    /\ retryQueue = <<>>
    /\ handled = NoRequest
    /\ call = NoCall
    /\ ServicesIdle

----------------------------------------------------------------------------
(* background.js: the capture pipeline *)

\* the webRequest details the listeners pass on: url, type (resource type),
\* method and initiator (<<>>: not given)
Details(url, type, method, initiator) ==
    [url |-> url, type |-> type, method |-> method, initiator |-> initiator]

CaptureDetails ==
    { Details(<<"h","t","t","p",":","/","/","h","/","a">>, <<"x","m","l","h","t","t","p","r","e","q","u","e","s","t">>, <<"G","E","T">>, <<>>),
      Details(<<"h","t","t","p",":","/","/","H","/","A","?","x","=","1">>, <<>>, <<>>, <<"h","t","t","p",":","/","/","h","/">>),
      Details(<<"h","t","t","p",":","/","/","h","/","a","p","i","/","l","o","g","i","n">>, <<"x","m","l","h","t","t","p","r","e","q","u","e","s","t">>, <<"P","O","S","T">>, <<"h","t","t","p",":","/","/","h","/">>),
      Details(<<"h","t","t","p",":","/","/","l","o","c","a","l","h","o","s","t",":","3","0","0","0","/","a","p","i","/","l","o","g","s">>, <<"x","m","l","h","t","t","p","r","e","q","u","e","s","t">>, <<"P","O","S","T">>, <<>>),
      Details(<<"h","t","t","p",":","/","/","h","/","a",".","p","n","g">>, <<"x","m","l","h","t","t","p","r","e","q","u","e","s","t">>, <<"G","E","T">>, <<>>),
      Details(<<"h","t","t","p",":","/","/","h","/","a">>, <<"i","m","a","g","e">>, <<"G","E","T">>, <<>>),
      Details(<<"n","o","u","r","l">>, <<"x","m","l","h","t","t","p","r","e","q","u","e","s","t">>, <<"G","E","T">>, <<>>),
      Details(<<"n","o","u","r","l">>, <<"i","m","a","g","e">>, <<"G","E","T">>, <<>>) }

\* the status codes the listeners pass on; 0: onErrorOccurred
CaptureStatusCodes == {200, 500, 0}

\* the answers to the upload: an HTTP status, 0 when fetch throws
Responses == {200, 404, 429, 500, 0}

\* the statement of initialize() that throws, "none" when none does: the
\* first constructor, or the last one
InitFailures == {"none", "RequestProcessor", "ServerAPI"}

\* shouldIgnoreRequest, new URL, getNormalizedPath and generateFingerprint,
\* tabulated over the details
IgnoreOf == [d \in CaptureDetails |-> shouldIgnoreRequest(d.url, d.type)]

UrlOf == [d \in CaptureDetails |-> ParseURL(d.url)]

NormalizedPathOf == [d \in CaptureDetails |-> getNormalizedPath(d.url)]

\* details.method || 'GET'
MethodOf(details) == IF details.method = <<>> THEN <<"G","E","T">> ELSE details.method

CaptureFingerprintOf ==
    [d \in {e \in CaptureDetails : UrlOf[e].ok} |->
        FE_generateFingerprint(MethodOf(d), UrlOf[d].hostname, NormalizedPathOf[d])]

\* STAGE 4: isPrimaryContext as JSON writes it, "null" when the details
\* name no initiator
IsPrimaryContext(details, hostname) ==
    IF details.initiator = <<>> \/ ~ParseURL(details.initiator).ok
    THEN "null"
    ELSE LET initiator == ParseURL(details.initiator).hostname
         IN  IF hostname = initiator \/ isSameDomain(hostname, initiator)
             THEN "true"
             ELSE "false"

ClassificationOf ==
    [d \in {e \in CaptureDetails : UrlOf[e].ok}, statusCode \in CaptureStatusCodes |->
        classifyRequest(MethodOf(d), NormalizedPathOf[d], UrlOf[d].hostname,
                        statusCode,
                        IsPrimaryContext(d, UrlOf[d].hostname) = "true")]

\* object[name] of a boolean property as JSON writes it, "undefined" when
\* the object has no such property
BooleanProperty(object, name) ==
    IF name \notin DOMAIN object THEN "undefined"
    ELSE IF object[name] THEN "true"
    ELSE "false"

\* STAGE 8: the log object; classification.resourceType is undefined, and a
\* pathname holds no '?'
LogObject(details, statusCode, t) ==
    LET classification == ClassificationOf[details, statusCode]
    IN  [hostname |-> UrlOf[details].hostname,
         method |-> MethodOf(details),
         normalizedPath |-> NormalizedPathOf[details],
         queryKeys |-> <<>>,
         statusCode |-> statusCode,
         statusCodes |-> <<statusCode>>,
         timestamp |-> t,
         ready_for_analysis |-> TRUE,
         score |-> classification.score,
         isPrimaryContext |-> IsPrimaryContext(details, UrlOf[details].hostname),
         tags |-> classification.tags,
         isCritical |-> BooleanProperty(classification, "isCritical"),
         fingerprint |-> CaptureFingerprintOf[details]]

\* (an upload that does not queue a rate-limited entry)
uploadLogDrops429(queue, online, logEntry, response) ==
    IF ~online
    THEN [retryQueue |-> Append(queue, logEntry), success |-> FALSE]
    ELSE IF response \in 200..299
    THEN [retryQueue |-> queue, success |-> TRUE]
    ELSE IF response = 0 \/ response >= 500
    THEN [retryQueue |-> Append(queue, logEntry), success |-> FALSE]
    ELSE [retryQueue |-> queue, success |-> FALSE]

\* ServerAPI.uploadLog(logEntry), response being the answer to its fetch:
\* the retry queue afterwards and the value returned
uploadLog(queue, online, logEntry, response) ==
    IF ~online
    THEN [retryQueue |-> Append(queue, logEntry), success |-> FALSE]
    ELSE IF response \in 200..299
    THEN [retryQueue |-> queue, success |-> TRUE]
    ELSE IF response = 0 \/ response >= 500 \/ response = 429
    THEN [retryQueue |-> Append(queue, logEntry), success |-> FALSE]
    ELSE [retryQueue |-> queue, success |-> FALSE]

\* the module-level state of the service worker
Worker ==
    [isInitialized |-> isInitialized, assigned |-> assigned, stats |-> stats,
     sessionFingerprints |-> sessionFingerprints, retryQueue |-> retryQueue]

AllAssigned == {"requestProcessor", "fingerprintEngine", "storage", "serverAPI"}

\* initialize() up to await serverAPI.checkHealth(), lines 52-66
InitializeUntilAwait(w) ==
    [w EXCEPT !.assigned = AllAssigned,
              !.sessionFingerprints = <<>>,
              !.retryQueue = <<>>]

\* initialize(): every constructor before the statement that throws has
\* run; a new FingerprintEngine and a new ServerAPI start empty
Initialize(w, fails) ==
    IF fails = "RequestProcessor"
    THEN [w EXCEPT !.stats.errors = @ + 1]
    ELSE IF fails = "ServerAPI"
    THEN [w EXCEPT !.assigned = @ \cup (AllAssigned \ {"serverAPI"}),
                   !.sessionFingerprints = <<>>,
                   !.stats.errors = @ + 1]
    ELSE [InitializeUntilAwait(w) EXCEPT !.isInitialized = TRUE]

\* what handled records of a call: the details, how initialize() ended
\* ("skipped" when it did not run), the stage the call ended in, whether it
\* classified, the fingerprint it computed (<<>>: none), whether the cache
\* had no entry of it, whether it called uploadLog, whether the promise of
\* the call was rejected, and the log object it uploaded
Handled(details, init, stage, classified, fingerprint, first, uploaded) ==
    [details |-> details, init |-> init, stage |-> stage,
     classified |-> classified, fingerprint |-> fingerprint, first |-> first,
     uploaded |-> uploaded, rejected |-> FALSE, logObject |-> EmptyObject]

\* the outer catch, lines 181-184
Caught(w, history) ==
    [worker |-> [w EXCEPT !.stats.errors = @ + 1], handled |-> history]

\* STAGE 1: the early return
\* (a pipeline that filters nothing out)
StageOneIgnoresNothing(details) == FALSE

StageOneIgnores(details) == IgnoreOf[details]

\* STAGE 2: the catch of an invalid URL, lines 100-104
\* (a stage that lets the exception of new URL escape the handler)
InvalidUrlEscapes(w, history) ==
    [worker |-> w, handled |-> [history EXCEPT !.rejected = TRUE]]

InvalidUrl(w, history) ==
    [worker |-> [w EXCEPT !.stats.errors = @ + 1], handled |-> history]

\* handleWebRequest from line 88 on, on the state w that line 84-86 left,
\* at time t: the state afterwards and what handled records
Pipeline(w0, init, cfg, details, statusCode, response, t) ==
    LET w == [w0 EXCEPT !.stats.requestsProcessed = @ + 1]
        H(stage, classified, fingerprint, first, uploaded) ==
            Handled(details, init, stage, classified, fingerprint, first, uploaded)
    IN  IF "requestProcessor" \notin w.assigned
        THEN Caught(w, H("threw", FALSE, <<>>, FALSE, FALSE))
        ELSE IF StageOneIgnores(details)
        THEN [worker |-> w, handled |-> H("ignored", FALSE, <<>>, FALSE, FALSE)]
        ELSE IF ~UrlOf[details].ok
        THEN InvalidUrl(w, H("invalidUrl", FALSE, <<>>, FALSE, FALSE))
        ELSE IF NormalizedPathOf[details] = <<>>
        THEN [worker |-> w, handled |-> H("noPath", FALSE, <<>>, FALSE, FALSE)]
        ELSE IF "fingerprintEngine" \notin w.assigned
        THEN Caught(w, H("threw", TRUE, <<>>, FALSE, FALSE))
        ELSE
            LET fingerprint == CaptureFingerprintOf[details]
                first == ~CacheHas(w.sessionFingerprints, fingerprint)
                cache == updateFingerprint(w.sessionFingerprints, cfg,
                                           fingerprint, t)
                w7 == [w EXCEPT !.sessionFingerprints = cache]
            IN  IF ~shouldSendUpdate(cache, cfg, fingerprint)
                THEN [worker |-> w7,
                      handled |-> H("cached", TRUE, fingerprint, first, FALSE)]
                ELSE IF "serverAPI" \notin w.assigned
                THEN Caught(w7, H("threw", TRUE, fingerprint, first, FALSE))
                ELSE LET logObject == LogObject(details, statusCode, t)
                         u == uploadLog(w.retryQueue, TRUE, logObject, response)
                     IN  IF u.success
                         THEN [worker |-> [w7 EXCEPT !.stats.logsUploaded = @ + 1],
                               handled |->
                                   [H("uploaded", TRUE, fingerprint, first, TRUE)
                                       EXCEPT !.logObject = logObject]]
                         ELSE [worker |-> [w7 EXCEPT !.stats.errors = @ + 1,
                                                     !.retryQueue = u.retryQueue],
                               handled |->
                                   [H("uploadFailed", TRUE, fingerprint, first, TRUE)
                                       EXCEPT !.logObject = logObject]]

\* handleWebRequest(details, statusCode), the whole call: a handler runs to
\* its end before the next one starts
handleWebRequest(w, cfg, details, statusCode, fails, response, t) ==
    IF w.isInitialized
    THEN Pipeline(w, "skipped", cfg, details, statusCode, response, t)
    ELSE Pipeline(Initialize(w, fails),
                  IF fails = "none" THEN "ok" ELSE "failed",
                  cfg, details, statusCode, response, t)

HandleWebRequest(details, statusCode) ==
    /\ stats.requestsProcessed < MaxHandled
    /\ \E r \in { handleWebRequest(Worker, config, details, statusCode,
                                   fails, response, now) :
                    fails \in InitFailures, response \in Responses } :
           /\ isInitialized' = r.worker.isInitialized
           /\ assigned' = r.worker.assigned
           /\ stats' = r.worker.stats
           /\ sessionFingerprints' = r.worker.sessionFingerprints
           /\ retryQueue' = r.worker.retryQueue
           /\ handled' = r.handled
    /\ UNCHANGED <<storeVars, serviceVars, now, config, call>>

\* the service worker is loaded with one of these configurations
CaptureConfigs ==
    { CONFIG, [CONFIG EXCEPT !.FINGERPRINT_THRESHOLD = 2] }

\* background.js is loaded: line 257 has called initialize()
InitCapture ==
    /\ logs = <<>>
    /\ fingerprintIndex = EmptyMap
    /\ saveScheduled = FALSE
    /\ savePending = FALSE
    /\ timers = <<>>
    /\ file = FileAbsent
    /\ now = 0
    /\ lastOp = NoOp
    /\ flush = FlushInit(FALSE)
    /\ config \in CaptureConfigs
    /\ \E fails \in InitFailures :
       \E w \in {Initialize([isInitialized |-> FALSE, assigned |-> {},
                             stats |-> ZeroStats, sessionFingerprints |-> <<>>,
                             retryQueue |-> <<>>], fails)} :
           /\ isInitialized = w.isInitialized
           /\ assigned = w.assigned
           /\ stats = w.stats
           /\ sessionFingerprints = w.sessionFingerprints
           /\ retryQueue = w.retryQueue
    /\ handled = NoRequest
    /\ call = NoCall
    /\ ServicesIdle

----------------------------------------------------------------------------
(* background.js: initialize() and the requests that arrive meanwhile *)

\* the requests that arrive while the service worker starts
StartingDetails ==
    { d \in CaptureDetails :
        d.url \in { <<"h","t","t","p",":","/","/","h","/","a">>, <<"h","t","t","p",":","/","/","h","/","a","p","i","/","l","o","g","i","n">>,
                    <<"h","t","t","p",":","/","/","l","o","c","a","l","h","o","s","t",":","3","0","0","0","/","a","p","i","/","l","o","g","s">> } }

\* initialize() is called: its constructors and startCleanup run, and it
\* awaits checkHealth; waits is the request whose handler awaits it
\* (NoRequest: the call of line 257)
InitializeStart(waits) ==
    \E w \in {InitializeUntilAwait(Worker)} :
        /\ assigned' = w.assigned
        /\ sessionFingerprints' = w.sessionFingerprints
        /\ retryQueue' = w.retryQueue
        /\ engines' = engines + 1
        /\ cleanupTimers' = cleanupTimers + 1
        /\ discarded' = (discarded \/ sessionFingerprints # <<>>)
        /\ starting' = starting \cup {[engine |-> engines + 1, waits |-> waits]}

\* the number of handlers that await their initialize()
Waiting == Cardinality({s \in starting : s.waits # NoRequest})

\* a listener calls handleWebRequest(details, statusCode): an initialized
\* worker handles the request, another one calls initialize() first
RequestArrives(details, statusCode) ==
    /\ stats.requestsProcessed + Waiting < MaxHandled
    /\ IF isInitialized
       THEN /\ \E r \in { Pipeline(Worker, "skipped", config, details,
                                   statusCode, response, now) :
                            response \in Responses } :
                   /\ stats' = r.worker.stats
                   /\ sessionFingerprints' = r.worker.sessionFingerprints
                   /\ retryQueue' = r.worker.retryQueue
                   /\ handled' = r.handled
            /\ UNCHANGED <<assigned, starting, engines, cleanupTimers, discarded>>
       ELSE /\ InitializeStart([details |-> details, statusCode |-> statusCode])
            /\ UNCHANGED <<stats, handled>>
    /\ UNCHANGED <<storeVars, now, config, isInitialized, call, requestBuffer,
                   isOnline, uploading, batches, retries, sent, enqueued,
                   accepted>>

\* checkHealth of one initialize() call has answered: the call sets
\* isInitialized, and the handler that awaited it goes on
InitializeEnd(s) ==
    /\ s \in starting
    /\ starting' = starting \ {s}
    /\ isInitialized' = TRUE
    /\ IF s.waits = NoRequest
       THEN UNCHANGED <<stats, sessionFingerprints, retryQueue, handled>>
       ELSE \E r \in { Pipeline([Worker EXCEPT !.isInitialized = TRUE], "ok",
                                config, s.waits.details, s.waits.statusCode,
                                response, now) :
                         response \in Responses } :
                /\ stats' = r.worker.stats
                /\ sessionFingerprints' = r.worker.sessionFingerprints
                /\ retryQueue' = r.worker.retryQueue
                /\ handled' = r.handled
    /\ UNCHANGED <<storeVars, now, config, assigned, call, requestBuffer,
                   isOnline, uploading, batches, retries, sent, enqueued,
                   accepted, engines, cleanupTimers, discarded>>

\* background.js is being loaded: line 257 has called initialize(), which
\* awaits checkHealth
InitStarting ==
    /\ NoStore
    /\ config \in CaptureConfigs
    /\ isInitialized = FALSE
    /\ assigned = AllAssigned
    /\ stats = ZeroStats
    /\ sessionFingerprints = <<>>
    /\ retryQueue = <<>>
    /\ handled = NoRequest
    /\ call = NoCall
    /\ requestBuffer = <<>>
    /\ isOnline = TRUE
    /\ uploading = {}
    /\ batches = <<>>
    /\ retries = 0
    /\ sent = {}
    /\ enqueued = {}
    /\ accepted = {}
    /\ starting = {[engine |-> 1, waits |-> NoRequest]}
    /\ engines = 1
    /\ cleanupTimers = 1
    /\ discarded = FALSE

----------------------------------------------------------------------------
(* ServerAPI: uploads and the retry queue *)

\* the log entries uploadLog is called with, each once
RetryLogs == {"l1", "l2"}

\* the number of times e occurs in the sequence s
Occurrences(s, e) == Cardinality({i \in 1..Len(s) : s[i] = e})

\* s without its i-th element
Without(s, i) == SubSeq(s, 1, i - 1) \o SubSeq(s, i + 1, Len(s))

\* uploadLog(logEntry) up to its await: an offline client pushes the entry
\* and returns false, an online one calls fetch
UploadLogStart(logEntry) ==
    /\ logEntry \notin sent
    /\ sent' = sent \cup {logEntry}
    /\ IF ~isOnline
       THEN \E u \in {uploadLog(retryQueue, FALSE, logEntry, 0)} :
                /\ retryQueue' = u.retryQueue
                /\ enqueued' = enqueued \cup {logEntry}
                /\ call' = [fn |-> "uploadLog", logEntry |-> logEntry,
                            online |-> FALSE, response |-> 0,
                            result |-> u.success]
                /\ UNCHANGED uploading
       ELSE /\ uploading' = uploading \cup {logEntry}
            /\ call' = [fn |-> "fetch", logEntry |-> logEntry]
            /\ UNCHANGED <<retryQueue, enqueued>>
    /\ UNCHANGED <<storeVars, now, config, isInitialized, assigned, stats,
                   sessionFingerprints, handled, requestBuffer, isOnline,
                   batches, retries, accepted,
                   starting, engines, cleanupTimers, discarded>>

\* uploadLog(logEntry) from the answer to its fetch on
UploadLogSettle(logEntry, response) ==
    /\ logEntry \in uploading
    /\ uploading' = uploading \ {logEntry}
    /\ \E u \in {uploadLog(retryQueue, TRUE, logEntry, response)} :
           /\ retryQueue' = u.retryQueue
           /\ enqueued' = IF u.retryQueue # retryQueue
                          THEN enqueued \cup {logEntry} ELSE enqueued
           /\ call' = [fn |-> "uploadLog", logEntry |-> logEntry,
                       online |-> TRUE, response |-> response,
                       result |-> u.success]
    /\ UNCHANGED <<storeVars, now, config, isInitialized, assigned, stats,
                   sessionFingerprints, handled, requestBuffer, isOnline,
                   batches, retries, sent, accepted,
                   starting, engines, cleanupTimers, discarded>>

\* batchUpload(logs), response being the answer to its fetch: the retry
\* queue afterwards and the value returned
batchUpload(queue, online, logsToUpload, response) ==
    IF ~online
    THEN [retryQueue |-> queue \o logsToUpload, success |-> FALSE]
    ELSE IF response \in 200..299
    THEN [retryQueue |-> queue, success |-> TRUE]
    ELSE [retryQueue |-> queue \o logsToUpload, success |-> FALSE]

\* processRetryQueue() up to its await: the queue is copied and emptied, and
\* batchUpload runs up to its fetch; the batch of an offline client has
\* failed already
processRetryQueue(queue, online) ==
    IF Len(queue) = 0
    THEN [retryQueue |-> queue, awaiting |-> <<>>]
    ELSE LET logsToRetry == queue
         IN  IF ~online
             THEN [retryQueue |-> batchUpload(<<>>, FALSE, logsToRetry, 0).retryQueue,
                   awaiting |-> <<[logsToRetry |-> logsToRetry,
                                   success |-> "false"]>>]
             ELSE [retryQueue |-> <<>>,
                   awaiting |-> <<[logsToRetry |-> logsToRetry,
                                   success |-> "pending"]>>]

\* (a retry that empties the queue again when it fails)
ReAddOverwrites(queue, logsToRetry) == logsToRetry

\* lines 239-242: this.retryQueue.push(...logsToRetry)
ReAdd(queue, logsToRetry) == queue \o logsToRetry

\* retryFailedUploads(), or the online event of a window
ProcessRetryQueueStart(event) ==
    /\ retries < MaxRetries
    /\ event = "online" => ~isOnline
    /\ retries' = retries + 1
    /\ isOnline' = IF event = "online" THEN TRUE ELSE isOnline
    /\ \E p \in {processRetryQueue(retryQueue, isOnline')} :
           /\ retryQueue' = p.retryQueue
           /\ batches' = batches \o p.awaiting
    /\ call' = [fn |-> "processRetryQueueStart"]
    /\ UNCHANGED <<storeVars, now, config, isInitialized, assigned, stats,
                   sessionFingerprints, handled, requestBuffer, uploading,
                   sent, enqueued, accepted,
                   starting, engines, cleanupTimers, discarded>>

\* the offline event of a window
GoOffline ==
    /\ isOnline
    /\ isOnline' = FALSE
    /\ call' = [fn |-> "offline"]
    /\ UNCHANGED <<storeVars, now, config, isInitialized, assigned, stats,
                   sessionFingerprints, retryQueue, handled, requestBuffer,
                   uploading, batches, retries, sent, enqueued, accepted,
                   starting, engines, cleanupTimers, discarded>>

\* the fetch of the i-th awaited batchUpload is answered
BatchUploadSettle(i, response) ==
    /\ i \in 1..Len(batches)
    /\ batches[i].success = "pending"
    /\ \E b \in {batchUpload(retryQueue, TRUE, batches[i].logsToRetry, response)} :
           /\ retryQueue' = b.retryQueue
           /\ batches' = [batches EXCEPT ![i].success =
                             IF b.success THEN "true" ELSE "false"]
           /\ accepted' = IF b.success
                          THEN accepted \cup {batches[i].logsToRetry[k] :
                                                k \in 1..Len(batches[i].logsToRetry)}
                          ELSE accepted
    /\ call' = [fn |-> "batchUpload"]
    /\ UNCHANGED <<storeVars, now, config, isInitialized, assigned, stats,
                   sessionFingerprints, handled, requestBuffer, isOnline,
                   uploading, retries, sent, enqueued,
                   starting, engines, cleanupTimers, discarded>>

\* processRetryQueue() from its await on; call records the logs it retried,
\* the queue it resumed on and the value of success
ProcessRetryQueueResume(i) ==
    /\ i \in 1..Len(batches)
    /\ batches[i].success # "pending"
    /\ retryQueue' = IF batches[i].success = "false"
                     THEN ReAdd(retryQueue, batches[i].logsToRetry)
                     ELSE retryQueue
    /\ batches' = Without(batches, i)
    /\ call' = [fn |-> "processRetryQueue",
                logsToRetry |-> batches[i].logsToRetry,
                success |-> batches[i].success = "true"]
    /\ UNCHANGED <<storeVars, now, config, isInitialized, assigned, stats,
                   sessionFingerprints, handled, requestBuffer, isOnline,
                   uploading, retries, sent, enqueued, accepted,
                   starting, engines, cleanupTimers, discarded>>

\* new ServerAPI(CONFIG)
InitRetry ==
    /\ NoStore
    /\ config = CONFIG
    /\ isInitialized = FALSE
    /\ assigned = {"serverAPI"}
    /\ stats = ZeroStats
    /\ sessionFingerprints = <<>>
    /\ retryQueue = <<>>
    /\ handled = NoRequest
    /\ call = NoCall
    /\ ServicesIdle

----------------------------------------------------------------------------
(* Specifications *)

\* the server process as deployed (server.js): the route handlers, the
\* debounce timers, the clock, kill and restart
Next ==
    \/ \E body \in Bodies : PostLog(body)
    \/ \E ok \in BOOLEAN : DeleteLogs(ok)
    \/ \E ok \in BOOLEAN : TimerFires(ok)
    \/ Tick
    \/ \E ok \in BOOLEAN : KillAndRestart(ok)

Spec == Init /\ [][Next]_vars

\* a LogStore called directly, its methods in any order
NextStore ==
    \/ \E logEntry \in Candidates : Add(logEntry)
    \/ \E fp \in Fingerprints : \E updates \in Updates : Update(fp, updates)
    \/ Clear
    \/ Tick

SpecStore == Init /\ [][NextStore]_vars

\* a LogStore that only add and clear are called on
NextUpsert ==
    \/ \E logEntry \in Candidates : Add(logEntry)
    \/ Clear
    \/ Tick

SpecUpsert == Init /\ [][NextUpsert]_vars

\* the observation the callers of SpecFlush add
FlushCandidates == { Candidate(<<Str_GET, Str_h, Str_pathA>>, <<200>>, <<>>, 0, 0) }

\* a LogStore and its durability coordinator called directly: mutations,
\* flush requests and forced flushes in any order, the timers and the clock
NextFlush ==
    \/ \E logEntry \in FlushCandidates : Add(logEntry)
    \/ Clear
    \/ ScheduleAsyncSave
    \/ \E ok \in BOOLEAN : SaveNow(ok)
    \/ \E ok \in BOOLEAN : TimerFires(ok)
    \/ Tick

SpecFlush == Init /\ [][NextFlush]_vars

\* the arguments of the direct calls of shouldIgnore and classifyRequest
FilterMethods == { <<>>, <<"G","E","T">>, <<"P","O","S","T">>, <<"p","u","t">> }

FilterHosts == { <<"h">>, <<"l","o","c","a","l","h","o","s","t">>, <<"1","2","7",".","0",".","0",".","1">>, <<":",":","1">>, <<"[",":",":","1","]">> }

FilterPaths ==
    { <<>>, <<"/","a">>, <<"/","a",".","P","N","G">>, <<"/","s","t","a","t","i","c","/","a">>, <<"/","s","e","s","s","i","o","n">>, <<"/","a","p","i","/","l","o","g","i","n">>,
      <<"/","v","2","/","o","r","d","e","r","s">>, <<"/","g","r","a","p","h","q","l">>, <<"/","m","e","t","r","i","c">> }

FilterStatusCodes ==
    {NoStatus, 0, 100, 200, 399, 400, 404, 499, 500, 503, 599}

\* the ExtensionFilter and the RequestProcessor called directly
NextFilter ==
    \/ \E method \in FilterMethods \ {<<>>} : \E hostname \in FilterHosts :
       \E normalizedPath \in FilterPaths :
           CallShouldIgnore(method, hostname, normalizedPath)
    \/ \E method \in FilterMethods : \E normalizedPath \in FilterPaths :
       \E statusCode \in FilterStatusCodes : \E isPrimaryContext \in BOOLEAN :
           CallClassifyRequest(method, normalizedPath, <<"h">>, statusCode,
                               isPrimaryContext)

SpecFilter == Init /\ [][NextFilter]_vars

\* a FingerprintEngine called directly, while time passes
NextEngine ==
    \/ \E fingerprint \in EngineFingerprints : UpdateFingerprint(fingerprint)
    \/ \E fingerprint \in EngineFingerprints : ShouldSendUpdate(fingerprint)
    \/ Tick

SpecEngine == InitEngine /\ [][NextEngine]_vars

\* the service worker: the webRequest listeners call handleWebRequest, one
\* call after the other
NextCapture ==
    \E details \in CaptureDetails : \E statusCode \in CaptureStatusCodes :
        HandleWebRequest(details, statusCode)

SpecCapture == InitCapture /\ [][NextCapture]_vars

\* the request buffer of a FingerprintEngine while time passes
NextBuffer ==
    \/ \E requestId \in BufferRequestIds : \E details \in BufferDetails :
           BufferRequest(requestId, details)
    \/ \E requestId \in BufferRequestIds : RemoveBufferedRequest(requestId)
    \/ CleanupBuffer
    \/ BufferTick

SpecBuffer == InitBuffer /\ [][NextBuffer]_vars

\* a ServerAPI: uploads, retries and network events in any interleaving
NextRetry ==
    \/ \E logEntry \in RetryLogs : UploadLogStart(logEntry)
    \/ \E logEntry \in RetryLogs : \E response \in Responses :
           UploadLogSettle(logEntry, response)
    \/ \E event \in {"retryFailedUploads", "online"} :
           ProcessRetryQueueStart(event)
    \/ GoOffline
    \/ \E i \in 1..MaxRetries : \E response \in Responses :
           BatchUploadSettle(i, response)
    \/ \E i \in 1..MaxRetries : ProcessRetryQueueResume(i)

SpecRetry == InitRetry /\ [][NextRetry]_vars

\* the service worker while it starts: requests arrive and health checks
\* answer in any order
NextStarting ==
    \/ \E details \in StartingDetails : \E statusCode \in {200, 500} :
           RequestArrives(details, statusCode)
    \/ \E s \in starting : InitializeEnd(s)

SpecStarting == InitStarting /\ [][NextStarting]_vars

\* a LogStore constructed on a file that parses, then added to
NextLoad ==
    \/ \E logEntry \in Candidates : Add(logEntry)
    \/ Tick

SpecLoad == InitLoad /\ [][NextLoad]_vars

----------------------------------------------------------------------------
(* Properties *)

\* the record add(c) merges into, as a position of logs
Slot(c) == fingerprintIndex[c.fingerprint] + 1

\* a step that is add(c) for a fingerprint the Store holds
MergingAdd(c) == IsKnown(fingerprintIndex, c.fingerprint) /\ Add(c)

\* C1: starting from an idle coordinator, add calls that are each followed
\* by scheduleAsyncSave and all come before the first write produce exactly
\* one durable write: never a second one, and one once the coordinator is
\* idle again.
C1_BurstWritesOnce ==
    (flush.clean /\ ~flush.owed) =>
        /\ flush.writes <= 1
        /\ FlushIdle => flush.writes = 1

\* C2: as long as no write fails, the file holds the Store exactly unless a
\* flush request is at most one debounce window old, so a kill at any
\* moment loses only mutations requested within the last window, and the
\* Store constructed after the kill is what the file held.
C2_CrashLosesAtMostOneWindow ==
    ~flush.failed =>
        /\ flush.dirtySince = -1 => file = JsonStringify(logs)
        /\ flush.dirtySince # -1 => now - flush.dirtySince <= SAVE_DEBOUNCE_MS
        /\ flush.lostAge <= SAVE_DEBOUNCE_MS
        /\ lastOp.op = "restart" => logs = JsonParse(file)

\* C2, its case: a restart after a kill that lost a flush request made
\* within the window, the records flushed before it loaded again
C2_Witness ==
    /\ lastOp.op = "restart"
    /\ ~flush.failed
    /\ flush.lostAge > 0
    /\ logs # <<>>

\* C3: after add and clear calls in any order, no two records share a
\* fingerprint and the index has as many keys as logs has records.
C3_FingerprintsUniqueAndCounted ==
    /\ \A i, j \in 1..Len(logs) :
           i # j => logs[i].fingerprint # logs[j].fingerprint
    /\ Cardinality(DOMAIN fingerprintIndex) = Len(logs)

\* C3, its case: two records, the last call an add that merged
C3_Witness ==
    /\ Len(logs) = 2
    /\ lastOp.op = "add"
    /\ ~lastOp.isNew

\* C4: add of a candidate with a stored fingerprint leaves the record with
\* the union of the stored and the candidate's status codes, and the union
\* of the stored and the candidate's query keys.
C4_MergeUnitesSets ==
    [][\A c \in Candidates :
          MergingAdd(c) =>
              /\ Elems(logs'[Slot(c)].statusCodes) =
                     Elems(logs[Slot(c)].statusCodes) \cup Elems(c.statusCodes)
              /\ Elems(logs'[Slot(c)].queryKeys) =
                     Elems(logs[Slot(c)].queryKeys) \cup Elems(c.queryKeys)]_vars

\* C5: add of a candidate with a stored fingerprint raises the record's
\* discoveryCount by the candidate's hint, by 1 when it carries none.
C5_MergeAddsDiscoveryCount ==
    [][\A c \in Candidates :
          MergingAdd(c) =>
              /\ Has(logs'[Slot(c)], "discoveryCount")
              /\ logs'[Slot(c)].discoveryCount =
                     OrElse(Field(logs[Slot(c)], "discoveryCount"), 1)
                     + OrElse(Field(c, "discoveryCount"), 1)]_vars

\* C6: no add or update call lowers the discoveryCount of a stored record.
C6_DiscoveryCountNeverDecreases ==
    [][\A i \in 1..Len(logs) :
          (lastOp'.op \in {"add", "update"} /\ Has(logs[i], "discoveryCount")) =>
              /\ Has(logs'[i], "discoveryCount")
              /\ logs'[i].discoveryCount >= logs[i].discoveryCount]_vars

\* C7: add called twice with the same observation leaves the record's
\* statusCodes and queryKeys as they were after the first call, with no
\* value twice in either unless the observation itself lists it twice.
C7_SecondAddKeepsSets ==
    \A c \in Candidates :
        LET first == AddResult(logs, fingerprintIndex, c, now)
            second == AddResult(first.logs, first.fingerprintIndex, c, now + TickMs)
            r1 == first.logs[first.index + 1]
            r2 == second.logs[second.index + 1]
        IN  /\ second.index = first.index
            /\ r2.statusCodes = r1.statusCodes
            /\ r2.queryKeys = r1.queryKeys
            /\ HasDuplicates(r2.statusCodes) => HasDuplicates(c.statusCodes)
            /\ HasDuplicates(r2.queryKeys) => HasDuplicates(c.queryKeys)

\* C7, its case: an observation was added to a Store that held its
\* fingerprint already
C7_Witness ==
    /\ lastOp.op = "add"
    /\ ~lastOp.isNew
    /\ logs[lastOp.index + 1].statusCodes = <<404>>
    /\ logs[lastOp.index + 1].lastPatched > logs[lastOp.index + 1].receivedAt

\* C8: add of a candidate with a stored fingerprint keeps the receivedAt
\* and the timestamp the record got when it was inserted.
C8_FirstSeenImmutable ==
    [][\A c \in Candidates :
          MergingAdd(c) =>
              /\ logs'[Slot(c)].receivedAt = logs[Slot(c)].receivedAt
              /\ Has(logs[Slot(c)], "timestamp") =>
                     logs'[Slot(c)].timestamp = logs[Slot(c)].timestamp]_vars

\* C9: getByFingerprint(fp) returns a record whose fingerprint is fp, for
\* every fingerprint of the index, after add and update calls in any order.
C9_FingerprintImmutable ==
    \A fp \in DOMAIN fingerprintIndex : GetByFingerprint(fp).fingerprint = fp

\* C10: after add calls in any order, every stored record's fingerprint is
\* generateFingerprint of the record's own method, hostname and
\* normalizedPath.
C10_FingerprintMatchesFields ==
    \A i \in 1..Len(logs) :
        logs[i].fingerprint = StoreFingerprint[TripleOf(logs[i])]

\* C10, its case: a record that a merge left with the triple (GET, h,
\* 80:/a), beside a record of another fingerprint
C10_Witness ==
    /\ Len(logs) = 2
    /\ lastOp.op = "add"
    /\ ~lastOp.isNew
    /\ logs[lastOp.index + 1].normalizedPath = Str_path80A

\* C11: two triples have the same fingerprint if and only if they are the
\* same triple: whatever record the Store holds, a triple that is hashed to
\* the record's fingerprint is the record's own triple, and the record's own
\* triple is hashed to its fingerprint.
C11_FingerprintIdentifiesTriple ==
    \A i \in 1..Len(logs) : \A tr \in TripleSpace :
        (StoreFingerprint[tr] = StoreFingerprint[TripleOf(logs[i])])
        <=> (tr = TripleOf(logs[i]))

\* the two sides compute the same fingerprint of every triple
SidesAgreeOnTripleSpace ==
    \A tr \in TripleSpace : CaptureFingerprint[tr] = StoreFingerprint[tr]

\* C12: for every triple, and for the triple of every stored record, the
\* capture side (FingerprintEngine) and the store side (ExtensionFilter)
\* compute the same fingerprint, which is the one the record is stored under.
C12_BothSidesAgree ==
    /\ SidesAgreeOnTripleSpace
    /\ \A i \in 1..Len(logs) :
           CaptureFingerprint[TripleOf(logs[i])] = logs[i].fingerprint

\* C12, its case: the server stored two observations under the fingerprints
\* it computed, one of a host with a port
C12_Witness ==
    /\ Len(logs) = 2
    /\ lastOp.op = "post:new"
    /\ \E i \in 1..2 : logs[i].hostname = Str_h80

\* C13: when add, update or clear returns, a debounce flush is pending:
\* saveScheduled is set and a timer is armed.
C13_MutationRequestsFlush ==
    lastOp.op \in {"add", "update", "clear"} =>
        /\ saveScheduled
        /\ timers # <<>>

\* C14: at most one debounce timer is armed at any time.
C14_AtMostOneTimer == Len(timers) <= 1

\* C15: a successful saveNow leaves the file equal to the Store, and until a
\* new flush is requested no timer callback runs and writes the file.
C15_SaveNowCancelsDebounce ==
    /\ (lastOp.op = "saveNow" /\ lastOp.ok) => file = JsonStringify(logs)
    /\ flush.forced => lastOp.op # "timer"

\* C16: after clear, count() is 0 and getByFingerprint finds no fingerprint;
\* and when no record was added since, a successful write (of saveNow or of
\* the timer) leaves the empty collection in the file, from which an empty
\* Store is constructed.
C16_ClearEmptiesStoreAndFile ==
    /\ lastOp.op = "clear" =>
           /\ Count = 0
           /\ \A fp \in Fingerprints : IndexOf(fingerprintIndex, fp) = -1
    /\ (flush.cleared > 0 /\ lastOp.op \in {"timer", "saveNow"} /\ lastOp.ok) =>
           /\ file = JsonStringify(<<>>)
           /\ Construct(file, TRUE).logs = <<>>
           /\ Construct(file, TRUE).fingerprintIndex = EmptyMap

\* C16, its case: clear emptied a Store that held records, no record was
\* added since, and the debounce timer has written the file
C16_Witness ==
    /\ flush.cleared = 2
    /\ lastOp.op = "timer"
    /\ lastOp.ok
    /\ file = JsonStringify(<<>>)

\* C17: a construction that finds no file and whose write succeeds leaves
\* the empty serialized collection in the file, and the Store and the index
\* empty.
C17_AbsentFileCreated ==
    (lastOp.op \in {"construct", "restart"} /\ lastOp.found = "absent" /\ lastOp.ok) =>
        /\ file = JsonStringify(<<>>)
        /\ logs = <<>>
        /\ fingerprintIndex = EmptyMap

\* C17, its case: the server was started again on a missing file (the write
\* of the first start had failed) and created it
C17_Witness ==
    /\ lastOp.op = "restart"
    /\ lastOp.found = "absent"
    /\ lastOp.ok
    /\ file = JsonStringify(<<>>)

\* C18: a construction that finds an unparseable file, or no file, does not
\* throw and leaves the Store and the index empty, whether its write of the
\* file succeeds (the file then holds the empty collection) or fails (the
\* file is left as it was).
C18_ConstructionNeverFails ==
    (lastOp.op \in {"construct", "restart"} /\ lastOp.found \in {"corrupt", "absent"}) =>
        /\ ~lastOp.threw
        /\ logs = <<>>
        /\ fingerprintIndex = EmptyMap
        /\ lastOp.ok => file = JsonStringify(<<>>)
        /\ ~lastOp.ok => file.kind = lastOp.found

\* C18, its case: a restart on an unparseable file whose rewrite failed too
C18_Witness ==
    /\ lastOp.op = "restart"
    /\ lastOp.found = "corrupt"
    /\ ~lastOp.ok
    /\ file = FileCorrupt

\* C19: a timer callback whose write fails does not throw, leaves logs, the
\* index and the file as they were, and leaves the coordinator so that after
\* the next flush request a timer is armed that is due one debounce window
\* after the failure or later.
C19_FailedWriteIsRetried ==
    [][(lastOp'.op = "timer" /\ ~lastOp'.ok) =>
          /\ ~lastOp'.threw
          /\ logs' = logs
          /\ fingerprintIndex' = fingerprintIndex
          /\ file' = file
          /\ LET c == Schedule(saveScheduled', savePending', timers', now')
             IN  /\ c.saveScheduled
                 /\ \E i \in 1..Len(c.timers) :
                        c.timers[i] >= now' + SAVE_DEBOUNCE_MS]_vars

\* C19, its case: the write of a callback failed while the Store held a
\* record the file does not hold, and no flush was pending
C19_Witness ==
    /\ lastOp.op = "timer"
    /\ ~lastOp.ok
    /\ logs # <<>>
    /\ file # JsonStringify(logs)
    /\ ~saveScheduled

\* shouldIgnore is true of every request body with a static-asset path
StaticBodiesIgnored ==
    \A body \in Bodies :
        (VerdictOf[body] # "400" /\ StaticOf[body.normalizedPath]) =>
            shouldIgnore(body.method, body.hostname, body.normalizedPath)

\* C20: shouldIgnore is true of every observation whose path ends with a
\* static-asset extension, whatever its method, hostname and the rest of
\* the path, and no record the server stored has such a path.
C20_StaticAssetsNeverStored ==
    /\ StaticBodiesIgnored
    /\ \A i \in 1..Len(logs) : ~StaticOf[logs[i].normalizedPath]

\* C20, its case: the server holds records and has just dropped the POST of
\* an observation with a static-asset extension
C20_Witness ==
    /\ lastOp.op = "post:ignored"
    /\ lastOp.static
    /\ logs # <<>>

\* the loopback hostnames the documentation names (README.md, Backend)
LoopbackHosts == { <<"l","o","c","a","l","h","o","s","t">>, <<"1","2","7",".","0",".","0",".","1">>, <<":",":","1">> }

\* C21: shouldIgnore(method, hostname, normalizedPath) is true of every
\* observation whose hostname is a loopback address (localhost, 127.0.0.1,
\* ::1), whatever its method and its path.
C21_LoopbackAlwaysIgnored ==
    (call.fn = "shouldIgnore" /\ call.hostname \in LoopbackHosts)
    => call.result

\* the weight a condition adds to the score
Weight(condition, weight) == IF condition THEN weight ELSE 0

\* C22: the score classifyRequest returns is the sum of the weights that
\* apply (30 for a POST, PUT, DELETE or PATCH in any letter case, 25 for a
\* business-action keyword in the path, 20 for the tag authentication, 15
\* for the tag api-endpoint, 10 for a status from 500 to 599), it lies in
\* 0..100, and critical is true exactly when the score is at least 50.
C22_ScoreIsSumOfWeights ==
    call.fn = "classifyRequest" =>
        /\ call.result.score =
               Weight(ToUpperCase(call.method)
                          \in { <<"P","O","S","T">>, <<"P","U","T">>, <<"D","E","L","E","T","E">>, <<"P","A","T","C","H">> }, 30)
               + Weight(\E w \in Elems(ACTION_WORDS) :
                            StrIncludes(ToLowerCase(call.normalizedPath), w), 25)
               + Weight("authentication" \in Elems(call.result.tags), 20)
               + Weight("api-endpoint" \in Elems(call.result.tags), 15)
               + Weight(call.statusCode \in 500..599, 10)
        /\ call.result.score \in 0..100
        /\ call.result.critical <=> (call.result.score >= 50)

\* C22, its cases: a score of exactly 50 (POST /session: 30 + 20), which
\* is critical, and the largest score
C22_Witness ==
    /\ call.fn = "classifyRequest"
    /\ call.result.score = 50
    /\ call.result.critical
    /\ call.normalizedPath = <<"/","s","e","s","s","i","o","n">>

\* C23: shouldSendUpdate(fingerprint) returns true if and only if the
\* session cache has no entry for the fingerprint or the entry's count is at
\* least FINGERPRINT_THRESHOLD; under the default threshold it returns true
\* for every fingerprint, whatever the cache holds.
C23_SendIffNewOrAtThreshold ==
    /\ call.fn = "shouldSendUpdate" =>
           (call.result <=>
               \/ \A i \in 1..Len(sessionFingerprints) :
                      sessionFingerprints[i][1] # call.fingerprint
               \/ \E i \in 1..Len(sessionFingerprints) :
                      /\ sessionFingerprints[i][1] = call.fingerprint
                      /\ sessionFingerprints[i][2].count
                             >= config.FINGERPRINT_THRESHOLD)
    /\ config.FINGERPRINT_THRESHOLD = DEFAULT_FINGERPRINT_THRESHOLD =>
           /\ call.fn = "shouldSendUpdate" => call.result
           /\ \A fingerprint \in EngineFingerprints :
                  shouldSendUpdate(sessionFingerprints, config, fingerprint)

\* C23, its case: under the default threshold, shouldSendUpdate was asked
\* about a fingerprint that the cache holds with a count of 1
C23_Witness ==
    /\ call.fn = "shouldSendUpdate"
    /\ config.FINGERPRINT_THRESHOLD = DEFAULT_FINGERPRINT_THRESHOLD
    /\ call.result
    /\ \E i \in 1..Len(sessionFingerprints) :
           /\ sessionFingerprints[i][1] = call.fingerprint
           /\ sessionFingerprints[i][2].count = 1

\* C24: after every updateFingerprint call the session cache holds at most
\* SESSION_FINGERPRINT_LIMIT entries, and every entry the call dropped (an
\* entry held before, or the one just recorded) was first seen no later than
\* every entry kept.
C24_CacheBoundedNewestKept ==
    [][(call'.fn = "updateFingerprint" /\ now' = now) =>
          /\ Len(sessionFingerprints') <= config.SESSION_FINGERPRINT_LIMIT
          /\ \A i \in 1..Len(sessionFingerprints) :
                 (\A k \in 1..Len(sessionFingerprints') :
                      sessionFingerprints'[k][1] # sessionFingerprints[i][1])
                 => \A k \in 1..Len(sessionFingerprints') :
                        sessionFingerprints'[k][2].firstSeen
                            >= sessionFingerprints[i][2].firstSeen
          /\ (\A k \in 1..Len(sessionFingerprints') :
                  sessionFingerprints'[k][1] # call'.fingerprint)
             => \A k \in 1..Len(sessionFingerprints') :
                    sessionFingerprints'[k][2].firstSeen >= now]_vars

\* C24, its case: a call made the cache exceed a limit of 2 and the prune
\* dropped an older entry and kept the new one
C24_Witness ==
    /\ call.fn = "updateFingerprint"
    /\ call.exceeded
    /\ config.SESSION_FINGERPRINT_LIMIT = 2
    /\ Len(sessionFingerprints) = 2
    /\ sessionFingerprints[1][1] = call.fingerprint
    /\ sessionFingerprints[1][2].firstSeen > sessionFingerprints[2][2].firstSeen

\* C25: whatever state add, update and clear have brought the Store to,
\* writing it to the file and constructing a new LogStore from the file gives
\* the same records in the same order and the same fingerprintIndex.
C25_DurableRoundTrip ==
    \E c \in {Construct(WriteFileSync(file, JsonStringify(logs), TRUE), TRUE)} :
        /\ c.logs = logs
        /\ c.fingerprintIndex = fingerprintIndex

C27_IsNewIffAbsent ==
    [][lastOp'.op = "add" =>
          LET entry == logs'[lastOp'.index + 1]
              absent == \A i \in 1..Len(logs) :
                            logs[i].fingerprint # entry.fingerprint
          IN  /\ lastOp'.isNew <=> absent
              /\ lastOp'.isNew =>
                     /\ Len(logs') = Len(logs) + 1
                     /\ lastOp'.index + 1 = Len(logs')
                     /\ SubSeq(logs', 1, Len(logs)) = logs
              /\ ~lastOp'.isNew =>
                     /\ Len(logs') = Len(logs)
                     /\ lastOp'.index + 1 \in 1..Len(logs)
                     /\ logs[lastOp'.index + 1].fingerprint = entry.fingerprint
                     /\ \A i \in 1..Len(logs) :
                            i # lastOp'.index + 1 => logs'[i] = logs[i]]_vars

\* C27, its case: an add of a fingerprint that the second of two records
\* already carried
C27_Witness ==
    /\ lastOp.op = "add"
    /\ ~lastOp.isNew
    /\ lastOp.index = 1
    /\ Len(logs) = 2


\* a step of handleWebRequest: every call counts itself in requestsProcessed
HandlerStep == stats'.requestsProcessed = stats.requestsProcessed + 1

\* what a failed lazy initialization of the call adds to stats.errors
InitErrors(history) == IF history.init = "failed" THEN 1 ELSE 0

\* C28: a call of handleWebRequest in which shouldIgnoreRequest returns true
\* classifies nothing, computes no fingerprint, records nothing in the
\* session fingerprint cache and uploads nothing, and its pipeline changes
\* requestsProcessed only: of the counters, logsUploaded stays and errors
\* grows by no more than the failed initialization of the same call
C28_PrefilteredShortCircuits ==
    [][ ( /\ HandlerStep
          /\ "requestProcessor" \in assigned'
          /\ IgnoreOf[handled'.details] )
        => /\ handled'.stage = "ignored"
           /\ ~handled'.classified
           /\ handled'.fingerprint = <<>>
           /\ ~handled'.uploaded
           /\ \A i \in 1..Len(sessionFingerprints') :
                  \E j \in 1..Len(sessionFingerprints) :
                      sessionFingerprints'[i] = sessionFingerprints[j]
           /\ handled'.init = "skipped" =>
                  sessionFingerprints' = sessionFingerprints
           /\ handled'.init # "ok" => retryQueue' = retryQueue
           /\ stats'.logsUploaded = stats.logsUploaded
           /\ stats'.errors = stats.errors + InitErrors(handled') ]_vars

\* a request to the dashboard's own host is filtered out by a worker whose
\* cache holds a fingerprint, which is still there
C28_Witness ==
    /\ handled.stage = "ignored"
    /\ handled.init = "skipped"
    /\ StrIncludes(handled.details.url, <<"l","o","c","a","l","h","o","s","t">>)
    /\ Len(sessionFingerprints) = 1
    /\ stats = [requestsProcessed |-> 2, logsUploaded |-> 1, errors |-> 0]

\* what a call on an unparseable URL does: nothing classified, nothing
\* uploaded or queued, and one error counted beside the one of a failed
\* initialization
DroppedAndCounted ==
    /\ ~handled'.classified
    /\ ~handled'.uploaded
    /\ handled'.init # "ok" => retryQueue' = retryQueue
    /\ stats'.logsUploaded = stats.logsUploaded
    /\ stats'.errors = stats.errors + InitErrors(handled') + 1

\* C29 as stated: handleWebRequest never rejects, and every observation
\* whose URL cannot be parsed is dropped and counted in stats.errors
C29_UnparseableAlwaysCounted ==
    [][ HandlerStep
        => /\ ~handled'.rejected
           /\ ~UrlOf[handled'.details].ok => DroppedAndCounted ]_vars

\* C29: handleWebRequest never rejects; an observation whose URL cannot be
\* parsed and whose resource type the pre-filter does not drop is dropped
\* without classification or upload and counted in stats.errors; an
\* exception of a later stage is counted in stats.errors, as is a failed
\* initialization, which the next call runs again
C29_NeverRejectsErrorsCounted ==
    [][ HandlerStep
        => /\ ~handled'.rejected
           /\ ( /\ ~UrlOf[handled'.details].ok
                /\ handled'.details.type \notin IGNORE_RESOURCE_TYPES )
              => DroppedAndCounted
           /\ handled'.stage = "threw" =>
                  /\ ~handled'.uploaded
                  /\ stats'.errors = stats.errors + InitErrors(handled') + 1
           /\ handled'.init = "failed" =>
                  /\ ~isInitialized'
                  /\ stats'.errors >= stats.errors + 1
           /\ (handled'.init = "skipped") = isInitialized ]_vars

\* after a call whose initialization failed, a call on an unparseable URL
\* is dropped and counted
C29_Witness ==
    /\ handled.stage = "invalidUrl"
    /\ handled.init = "ok"
    /\ isInitialized
    /\ stats = [requestsProcessed |-> 2, logsUploaded |-> 0, errors |-> 4]

\* C30: the first observation of a fingerprint in a session is handed to
\* uploadLog by an initialized worker, whatever the threshold
C30_FirstObservationUploaded ==
    [][ ( /\ HandlerStep
          /\ isInitialized'
          /\ handled'.fingerprint # <<>>
          /\ handled'.first )
        => handled'.uploaded ]_vars


\* C31: classifyRequest pushes server-error exactly for a status code in
\* 500..599 and client-error exactly for one in 400..499; a status code that
\* is not given or is 0 gets neither tag
C31_ErrorTagsIffStatusClass ==
    call.fn = "classifyRequest" =>
        /\ Includes(call.result.tags, "server-error")
               <=> call.statusCode \in 500..599
        /\ Includes(call.result.tags, "client-error")
               <=> call.statusCode \in 400..499
        /\ call.statusCode \in {NoStatus, 0} =>
               /\ ~Includes(call.result.tags, "server-error")
               /\ ~Includes(call.result.tags, "client-error")

\* the last status code below 500 is a client error and no server error
C31_Witness ==
    /\ call.fn = "classifyRequest"
    /\ call.statusCode = 499
    /\ Includes(call.result.tags, "client-error")
    /\ ~Includes(call.result.tags, "server-error")


\* C32: after cleanupBuffer no entry of the request buffer is older than
\* REQUEST_BUFFER_TTL, and every entry that was no older than the TTL is
\* still there, with the content it had
C32_CleanupPurgesExactlyExpired ==
    [][ call'.fn = "cleanupBuffer" /\ now' = now
        => /\ \A i \in 1..Len(requestBuffer') :
                  now - requestBuffer'[i][2].timestamp <= REQUEST_BUFFER_TTL
           /\ \A i \in 1..Len(requestBuffer) :
                  now - requestBuffer[i][2].timestamp <= REQUEST_BUFFER_TTL
                  => \E j \in 1..Len(requestBuffer') :
                         requestBuffer'[j] = requestBuffer[i]
           /\ \A j \in 1..Len(requestBuffer') :
                  \E i \in 1..Len(requestBuffer) :
                      requestBuffer[i] = requestBuffer'[j] ]_vars

\* a sweep purged one request and kept the one whose age is the TTL
C32_Witness ==
    /\ call.fn = "cleanupBuffer"
    /\ call.purged = 1
    /\ Len(requestBuffer) = 1
    /\ now - requestBuffer[1][2].timestamp = REQUEST_BUFFER_TTL


\* C33: uploadLog returns true only after an OK answer of the server; when
\* the client is offline, the fetch failed (response 0) or the server
\* answered 5xx or 429, it returns false and has appended the entry to the
\* retry queue once; after any other answer that is not OK it returns false
\* and the queue is as it was
C33_UploadResultAndQueue ==
    [][ call'.fn = "uploadLog"
        => /\ call'.result =>
                  /\ call'.online
                  /\ call'.response \in 200..299
                  /\ retryQueue' = retryQueue
           /\ ( \/ ~call'.online
                \/ call'.response = 0
                \/ call'.response \in 500..599
                \/ call'.response = 429 )
              => /\ ~call'.result
                 /\ retryQueue' = Append(retryQueue, call'.logEntry)
           /\ ( /\ call'.online
                /\ call'.response \notin (200..299) \cup (500..599) \cup {0, 429} )
              => /\ ~call'.result
                 /\ retryQueue' = retryQueue ]_vars

\* a rate-limited upload is in the queue once
C33_Witness ==
    /\ call.fn = "uploadLog"
    /\ call.online
    /\ call.response = 429
    /\ ~call.result
    /\ Occurrences(retryQueue, call.logEntry) = 1

\* C35: when processRetryQueue ends after a failed batch upload, the retry
\* queue holds every log entry that was pending before the call as often
\* as it was pending
C35_FailedRetryKeepsEachOnce ==
    [][ call'.fn = "processRetryQueue" /\ ~call'.success
        => \A k \in 1..Len(call'.logsToRetry) :
               Occurrences(retryQueue', call'.logsToRetry[k])
                   = Occurrences(call'.logsToRetry, call'.logsToRetry[k]) ]_vars

\* C36: every log entry uploadLog enqueued is in a batch the server
\* accepted, in the retry queue, or in the logsToRetry of a processRetryQueue
\* that has not completed; so when none is running it is accepted or queued
C36_NoQueuedLogLost ==
    \A logEntry \in enqueued :
        \/ logEntry \in accepted
        \/ Occurrences(retryQueue, logEntry) >= 1
        \/ \E i \in 1..Len(batches) :
               Occurrences(batches[i].logsToRetry, logEntry) >= 1

\* the only processRetryQueue has failed and completed, and the queue starts
\* with an entry that uploadLog pushed while it was awaiting
C36_Witness ==
    /\ call.fn = "processRetryQueue"
    /\ ~call.success
    /\ retries = 1
    /\ batches = <<>>
    /\ Len(retryQueue) >= 2
    /\ Occurrences(call.logsToRetry, retryQueue[1]) = 0
    /\ retryQueue[1] \in enqueued


\* C34: the log object handleWebRequest uploads has isCritical true exactly
\* when the score of its classification is at least 50
C34_UploadedIsCriticalIffScore50 ==
    handled.stage \in {"uploaded", "uploadFailed"} =>
        (handled.logObject.isCritical = "true"
            <=> handled.logObject.score >= 50)


\* C37: whatever the interleaving of the startup initialize() with the
\* handleWebRequest calls that arrive before it completes, one
\* FingerprintEngine is created, one cleanup interval is started, and no
\* cache that holds entries is replaced by a new engine
C37_InitializedOnce ==
    /\ engines <= 1
    /\ cleanupTimers <= 1
    /\ ~discarded



\* C38: when updateFingerprint(fingerprint) returns, the session cache has
\* an entry of that fingerprint, whatever the cache held and whatever the
\* limit
C38_JustRecordedNeverEvicted ==
    [][ call'.fn = "updateFingerprint"
        => CacheHas(sessionFingerprints', call'.fingerprint) ]_vars


\* C39: after load of a file that parses, every record of logs is found
\* through fingerprintIndex under its own fingerprint, so that no two
\* records share a fingerprint
C39_LoadedIndexAgrees ==
    lastOp.op = "construct" =>
        \A i \in 1..Len(logs) :
            /\ Truthy(logs[i])
            /\ IndexOf(fingerprintIndex, logs[i].fingerprint) = i - 1

====
